---- MODULE Spec2Model ----
(***************************************************************************)
(* Model of the auto-rigger framework of gt-tools:                         *)
(*   src/gt/tools/auto_rigger/rig_framework.py   (Proxy, ModuleGeneric,    *)
(*                                                RigProject)              *)
(*   src/gt/tools/auto_rigger/rig_module_spine.py (ModuleSpine)            *)
(*   src/gt/utils/hierarchy_utils.py              (parent)                 *)
(*                                                                         *)
(* Python values are records [t |-> <type name>, v |-> <payload>], so that *)
(* the isinstance() tests and the truthiness tests of the setters are      *)
(* computed as the code computes them.                                     *)
(***************************************************************************)
EXTENDS Integers, Sequences, FiniteSets, TLC

\* ------------------------------------------------------------------ bounds
MaxModules == 2      \* modules in a project
MaxCalls == 2        \* RigProject.build_proxy / build_rig calls per behaviour
MaxSpines == 3       \* largest spine_num given to set_spine_num
MaxSpineCalls == 4   \* set_spine_num calls per behaviour
MaxSetterCalls == 2  \* Proxy setter calls per behaviour
MaxDataCalls == 2    \* calls on the data of a project per behaviour

\* --------------------------------------------------------- Python values
PyNone == [t |-> "none", v |-> "None"]
PyStr(s) == [t |-> "str", v |-> s]
PyInt(i) == [t |-> "int", v |-> i]
PyFloat(s) == [t |-> "float", v |-> s]
PyBool(b) == [t |-> "bool", v |-> b]
PyList(n) == [t |-> "list", v |-> n]      \* a list of n numbers
PyTuple(n) == [t |-> "tuple", v |-> n]    \* a tuple of n numbers
PyDict(f) == [t |-> "dict", v |-> f]
TransformObj(k) == [t |-> "Transform", v |-> k]
CurveObj(shape, name, ok) == [t |-> "Curve", v |-> [shape |-> shape, name |-> name, valid |-> ok]]
ProxyObj(uuid) == [t |-> "Proxy", v |-> uuid]

EmptyDict == [k \in {} |-> ""]

\* Python truthiness: PyNone, "", 0, 0.0, False, [] and {} are falsy.
Truthy(x) ==
    CASE x.t = "none" -> FALSE
      [] x.t = "str" -> x.v # ""
      [] x.t = "int" -> x.v # 0
      [] x.t = "float" -> x.v # "0.0"
      [] x.t = "bool" -> x.v
      [] x.t \in {"list", "tuple"} -> x.v # 0
      [] x.t = "dict" -> DOMAIN x.v # {}
      [] OTHER -> TRUE

\* isinstance(x, (float, int)): bool is a subclass of int.
IsNumber(x) == x.t \in {"int", "float", "bool"}

\* ------------------------------------------------------------------ UUIDs
\* uuid_utils is not part of the sources: generate_uuid yields fresh,
\* dash-free strings that is_uuid_valid accepts; is_short_uuid_valid accepts
\* the short form; every other string fails both.
GeneratedUuids ==
    << "u01", "u02", "u03", "u04", "u05", "u06", "u07", "u08", "u09", "u10",
       "u11", "u12", "u13", "u14", "u15", "u16", "u17", "u18", "u19", "u20",
       "u21", "u22", "u23", "u24", "u25", "u26", "u27", "u28", "u29", "u30" >>
FullUuids == {GeneratedUuids[i] : i \in 1..Len(GeneratedUuids)}
ShortUuids == {"s01", "s02"}
generate_uuid(n) == GeneratedUuids[n]
is_uuid_valid(s) == s \in FullUuids
is_short_uuid_valid(s) == s \in ShortUuids

\* RiggerConstants metadata keys (rig_constants is not part of the sources)
PROXY_META_PARENT == "metaParentUUID"
PROXY_META_TYPE == "proxyType"

\* dictionary update d[k] = val
DictPut(d, k, val) == [x \in (DOMAIN d) \cup {k} |-> IF x = k THEN val ELSE d[x]]
DictGet(d, k) == IF k \in DOMAIN d THEN d[k] ELSE "None"

\* ------------------------------------------------------------------ Proxy
\* Proxy.__init__ with no arguments; uuid is the generated UUID.
NewProxy(uuid) ==
    [ name |-> PyStr("proxy"),
      transform |-> PyNone,
      offset_transform |-> PyNone,
      curve |-> CurveObj("_proxy_joint", "proxy", TRUE),
      uuid |-> PyStr(uuid),
      parent_uuid |-> PyNone,
      locator_scale |-> PyInt(1),
      attr_dict |-> PyDict(EmptyDict),
      metadata |-> PyNone ]

is_valid(p) == Truthy(p.name) /\ Truthy(p.curve)

set_name(p, name) ==
    IF name.t = "none" \/ name.t # "str" THEN p
    ELSE [p EXCEPT !.curve = CurveObj(p.curve.v.shape, name.v, p.curve.v.valid), !.name = name]

\* set_transform without its type check
set_transform_Unchecked(p, transform) ==
    [p EXCEPT !.transform = transform]

set_transform(p, transform) ==
    IF ~Truthy(transform) \/ transform.t # "Transform" THEN p
    ELSE [p EXCEPT !.transform = transform]

set_offset_transform(p, transform) ==
    IF ~Truthy(transform) \/ transform.t # "Transform" THEN p
    ELSE [p EXCEPT !.offset_transform = transform]

set_curve(p, curve) ==
    IF ~Truthy(curve) \/ curve.t # "Curve" THEN p
    ELSE IF ~curve.v.valid THEN p
    ELSE [p EXCEPT !.curve = CurveObj(curve.v.shape, p.name.v, TRUE)]

\* the type test only logs: the assignment follows it on every path
set_locator_scale(p, scale) ==
    [p EXCEPT !.locator_scale = scale]

set_attr_dict(p, attr_dict) ==
    IF attr_dict.t # "dict" THEN p ELSE [p EXCEPT !.attr_dict = attr_dict]

set_metadata_dict(p, metadata) ==
    IF metadata.t # "dict" THEN p ELSE [p EXCEPT !.metadata = metadata]

add_to_metadata(p, key, value) ==
    LET md == IF ~Truthy(p.metadata) THEN EmptyDict ELSE p.metadata.v
    IN [p EXCEPT !.metadata = PyDict(DictPut(md, key, value))]

add_meta_parent(p, line_parent) ==
    LET md == IF ~Truthy(p.metadata) THEN EmptyDict ELSE p.metadata.v
        md1 == IF line_parent.t = "str" /\ is_uuid_valid(line_parent.v)
               THEN DictPut(md, PROXY_META_PARENT, line_parent.v) ELSE md
        md2 == IF line_parent.t = "Proxy"
               THEN DictPut(md1, PROXY_META_PARENT, line_parent.v) ELSE md1
    IN [p EXCEPT !.metadata = PyDict(md2)]

add_color(p, rgb_color) ==
    IF rgb_color.t \in {"tuple", "list"} /\ rgb_color.v >= 3
    THEN [p EXCEPT !.attr_dict =
            PyDict(DictPut(DictPut(p.attr_dict.v, "autoColor", "False"), "colorDefault", "rgb"))]
    ELSE p

set_uuid(p, uuid) ==
    IF ~Truthy(uuid) \/ uuid.t # "str" THEN p
    ELSE IF is_uuid_valid(uuid.v) \/ is_short_uuid_valid(uuid.v)
         THEN [p EXCEPT !.uuid = uuid]
         ELSE p

\* set_parent_uuid without the validation of its argument
set_parent_uuid_Unchecked(p, uuid) == [p EXCEPT !.parent_uuid = uuid]

set_parent_uuid(p, uuid) ==
    IF ~Truthy(uuid) \/ uuid.t # "str" THEN p
    ELSE IF is_uuid_valid(uuid.v) \/ is_short_uuid_valid(uuid.v)
         THEN [p EXCEPT !.parent_uuid = uuid]
         ELSE p

set_parent_uuid_from_proxy(p, parent_proxy) ==
    IF ~Truthy(parent_proxy) \/ parent_proxy.t # "Proxy" THEN p
    ELSE set_parent_uuid(p, PyStr(parent_proxy.v))

clear_parent_uuid(p) == [p EXCEPT !.parent_uuid = PyNone]

set_meta_type(p, value) == add_to_metadata(p, PROXY_META_TYPE, value)

get_meta_parent_uuid(p) ==
    IF Truthy(p.metadata) /\ p.metadata.t = "dict"
    THEN DictGet(p.metadata.v, PROXY_META_PARENT) ELSE "None"

\* ------------------------------------------- Proxy: dictionary round trip
\* Transform (transform_utils is not part of the sources): a value object
\* that is truthy, serialises to a dictionary of three entries and reads
\* its value back from such a dictionary; any other input is rejected.
DefaultTransform == TransformObj("T0")

get_transform_as_dict(tr) ==
    PyDict([k \in {"position", "rotation", "scale"} |-> tr.v])

IsTransformDict(d) ==
    d.t = "dict" /\ DOMAIN d.v = {"position", "rotation", "scale"}

set_transform_from_dict(tr, d) ==
    IF IsTransformDict(d) THEN TransformObj(d.v["position"]) ELSE tr

\* len(x) of the values a description may hold under a transform key
PyLen(x) ==
    CASE x.t = "dict" -> Cardinality(DOMAIN x.v)
      [] x.t \in {"list", "tuple"} -> x.v
      [] OTHER -> 0 - 1     \* no len(): TypeError

\* dict.get(key)
PyGet(d, key) == IF key \in DOMAIN d THEN d[key] ELSE PyNone

\* Proxy._initialize_transform / _initialize_offset_transform
initialize_transform(tr) == IF ~Truthy(tr) THEN DefaultTransform ELSE tr

\* Proxy.get_proxy_as_dict
get_proxy_as_dict(p, include_uuid, include_transform_data, include_offset_data) ==
    LET d0 == [k \in {"name", "parent", "locatorScale"} |->
                 CASE k = "name" -> p.name
                   [] k = "parent" -> p.parent_uuid
                   [] OTHER -> p.locator_scale]
        d1 == IF Truthy(p.transform) /\ include_transform_data
              THEN DictPut(d0, "transform", get_transform_as_dict(p.transform)) ELSE d0
        d2 == IF Truthy(p.offset_transform) /\ include_offset_data
              THEN DictPut(d1, "offsetTransform", get_transform_as_dict(p.offset_transform))
              ELSE d1
        d3 == IF Truthy(p.attr_dict) THEN DictPut(d2, "attributes", p.attr_dict) ELSE d2
        d4 == IF Truthy(p.metadata) THEN DictPut(d3, "metadata", p.metadata) ELSE d3
        d5 == IF include_uuid /\ Truthy(p.uuid) THEN DictPut(d4, "uuid", p.uuid) ELSE d4
    IN PyDict(d5)

\* The keys of read_data_from_dict in the order the code reads them.  The
\* result is the proxy and the exception that ended the call, if any.  The
\* offset transform is read from the value of the "transform" key; when
\* that value is None, noneRaises chooses what the missing Transform code
\* does with it: raise, or reject it as the setters do.
WhenTruthy(value, obj, Set(_, _)) == IF Truthy(value) THEN Set(obj, value) ELSE obj

\* name, parent and locatorScale: "if _x: self.set_x(_x)"
ReadKeysHead(p, d) ==
    WhenTruthy(PyGet(d, "locatorScale"),
               WhenTruthy(PyGet(d, "parent"),
                          WhenTruthy(PyGet(d, "name"), p, set_name),
                          set_parent_uuid),
               set_locator_scale)

\* transform: read when the value is truthy and has three entries
ReadTransform(p, transform) ==
    IF Truthy(transform) /\ PyLen(transform) = 3
    THEN [p EXCEPT !.transform = set_transform_from_dict(initialize_transform(@), transform)]
    ELSE p

\* offsetTransform: guarded by its own value, read from the value of the
\* "transform" key
ReadOffsetTransform(p, offset_transform, transform) ==
    IF Truthy(offset_transform) /\ PyLen(offset_transform) = 3
    THEN [p EXCEPT !.offset_transform =
            set_transform_from_dict(initialize_transform(@), transform)]
    ELSE p

\* attributes, metadata and uuid
ReadKeysTail(p, d) ==
    WhenTruthy(PyGet(d, "uuid"),
               WhenTruthy(PyGet(d, "metadata"),
                          WhenTruthy(PyGet(d, "attributes"), p, set_attr_dict),
                          set_metadata_dict),
               set_uuid)

ReadKeys(p, d, noneRaises) ==
    IF Truthy(PyGet(d, "transform")) /\ PyLen(PyGet(d, "transform")) < 0
    THEN [proxy |-> ReadKeysHead(p, d), exc |-> "TypeError"]
    ELSE IF Truthy(PyGet(d, "offsetTransform")) /\ PyLen(PyGet(d, "offsetTransform")) < 0
    THEN [proxy |-> ReadTransform(ReadKeysHead(p, d), PyGet(d, "transform")),
          exc |-> "TypeError"]
    ELSE IF /\ Truthy(PyGet(d, "offsetTransform"))
            /\ PyLen(PyGet(d, "offsetTransform")) = 3
            /\ PyGet(d, "transform").t = "none"
            /\ noneRaises
    THEN [proxy |-> [ReadTransform(ReadKeysHead(p, d), PyGet(d, "transform"))
                       EXCEPT !.offset_transform = initialize_transform(@)],
          exc |-> "AttributeError"]
    ELSE [proxy |-> ReadKeysTail(
                        ReadOffsetTransform(
                            ReadTransform(ReadKeysHead(p, d), PyGet(d, "transform")),
                            PyGet(d, "offsetTransform"), PyGet(d, "transform")),
                        d),
          exc |-> "none"]

\* read_data_from_dict that starts from the defaults: a missing key resets
\* its field
read_data_from_dict_Replace(p, proxy_dict, noneRaises) ==
    IF Truthy(proxy_dict) /\ proxy_dict.t # "dict" THEN [proxy |-> p, exc |-> "none"]
    ELSE IF proxy_dict.t # "dict" THEN [proxy |-> p, exc |-> "AttributeError"]
    ELSE ReadKeys(NewProxy(p.uuid.v), proxy_dict.v, noneRaises)

\* Proxy.read_data_from_dict: a truthy non-dictionary is refused, a falsy
\* one (None, "", 0) has no get method
read_data_from_dict(p, proxy_dict, noneRaises) ==
    IF Truthy(proxy_dict) /\ proxy_dict.t # "dict" THEN [proxy |-> p, exc |-> "none"]
    ELSE IF proxy_dict.t # "dict" THEN [proxy |-> p, exc |-> "AttributeError"]
    ELSE ReadKeys(p, proxy_dict.v, noneRaises)

\* ------------------------------------------------------------ ModuleSpine
\* Proxy objects live in a heap (object id -> fields); a module holds
\* references, as the Python lists do.  The id of an object is also the
\* index of the UUID generated for it.
VARIABLES heap, spine, lastSpineNum, lastSpineOp, spineExc, spineCalls

spineVars == <<heap, spine, lastSpineNum, lastSpineOp, spineExc, spineCalls>>

SpineNames ==
    << "spine01", "spine02", "spine03", "spine04", "spine05",
       "spine06", "spine07", "spine08", "spine09" >>

ColorFollower == PyTuple(3)   \* ColorConstants.RigProxy.FOLLOWER

Alloc(h) == Len(h) + 1

\* Proxy(name=...) : defaults, then set_name when the name is truthy
ProxyNamed(h, name) ==
    LET p == NewProxy(generate_uuid(Alloc(h)))
    IN IF Truthy(name) THEN set_name(p, name) ELSE p

\* Vector3(y=...) given to set_initial_position: both transforms are
\* initialised and positioned
set_initial_position(p, pos) ==
    [p EXCEPT !.transform = TransformObj(pos), !.offset_transform = TransformObj(pos)]

\* s[:n] of Python
Truncate(s, n) ==
    IF n >= 0 THEN SubSeq(s, 1, IF n < Len(s) THEN n ELSE Len(s))
    ELSE SubSeq(s, 1, IF Len(s) + n > 0 THEN Len(s) + n ELSE 0)

\* the creation loop without "_parent_uuid = new_spine.get_uuid()"
RECURSIVE CreateSpines_SameParent(_, _, _, _, _)
CreateSpines_SameParent(h, spines, num, spine_num, parent_uuid) ==
    IF num >= spine_num THEN [heap |-> h, spines |-> spines]
    ELSE LET p0 == ProxyNamed(h, PyStr(SpineNames[num + 1]))
             p1 == add_meta_parent(set_locator_scale(p0, PyInt(1)), parent_uuid)
             new_spine == set_parent_uuid(p1, parent_uuid)
         IN CreateSpines_SameParent(Append(h, new_spine), Append(spines, Alloc(h)),
                                    num + 1, spine_num, parent_uuid)

\* the "for num in range(spines_len, spine_num)" loop of set_spine_num
RECURSIVE CreateSpines(_, _, _, _, _)
CreateSpines(h, spines, num, spine_num, parent_uuid) ==
    IF num >= spine_num THEN [heap |-> h, spines |-> spines]
    ELSE LET p0 == ProxyNamed(h, PyStr(SpineNames[num + 1]))
             p1 == set_locator_scale(p0, PyInt(1))
             p2 == add_color(p1, ColorFollower)
             p3 == set_meta_type(p2, SpineNames[num + 1])
             p4 == add_meta_parent(p3, parent_uuid)
             new_spine == set_parent_uuid(p4, parent_uuid)
         IN CreateSpines(Append(h, new_spine), Append(spines, Alloc(h)),
                         num + 1, spine_num, new_spine.uuid)

refresh_proxies_list_NoChest(m) ==
    [m EXCEPT !.proxies = <<m.hip>> \o m.spines]

refresh_proxies_list(m) ==
    [m EXCEPT !.proxies = <<m.hip>> \o m.spines \o <<m.chest>>]

\* set_spine_num that truncates without re-linking the chest
set_spine_num_NoRelink(h, m, spine_num) ==
    LET spines_len == Len(m.spines)
    IN IF spines_len = spine_num THEN [heap |-> h, spine |-> m]
       ELSE IF spines_len < spine_num
       THEN LET grown == CreateSpines(h, m.spines, spines_len, spine_num,
                                      IF m.spines # <<>>
                                      THEN h[m.spines[Len(m.spines)]].uuid
                                      ELSE h[m.hip].uuid)
                sp == grown.spines
                h2 == [grown.heap EXCEPT ![m.chest] =
                          add_meta_parent(grown.heap[m.chest], grown.heap[sp[Len(sp)]].uuid)]
            IN [heap |-> h2, spine |-> refresh_proxies_list([m EXCEPT !.spines = sp])]
       ELSE [heap |-> h,
             spine |-> refresh_proxies_list([m EXCEPT !.spines = Truncate(m.spines, spine_num)])]

\* ModuleSpine.set_spine_num on the state [heap, spine]
set_spine_num(h, m, spine_num) ==
    LET spines_len == Len(m.spines)
    IN IF spines_len = spine_num THEN [heap |-> h, spine |-> m]
       ELSE LET grown ==
                    IF spines_len < spine_num
                    THEN CreateSpines(h, m.spines, spines_len, spine_num,
                                      IF m.spines # <<>>
                                      THEN h[m.spines[Len(m.spines)]].uuid
                                      ELSE h[m.hip].uuid)
                    ELSE [heap |-> h, spines |-> Truncate(m.spines, spine_num)]
                h1 == grown.heap
                sp == grown.spines
                line_parent == IF sp # <<>> THEN h1[sp[Len(sp)]].uuid ELSE h1[m.hip].uuid
                h2 == [h1 EXCEPT ![m.chest] = add_meta_parent(h1[m.chest], line_parent)]
            IN [heap |-> h2, spine |-> refresh_proxies_list([m EXCEPT !.spines = sp])]

\* ModuleSpine.__init__: hip, chest, then set_spine_num(3)
SpineConstructed ==
    LET hip == set_meta_type(
                 set_locator_scale(
                   set_initial_position(ProxyNamed(<<>>, PyStr("hip")), "y84.5"),
                   PyFloat("1.5")), "hip")
        h1 == <<hip>>
        chest == set_meta_type(
                   set_locator_scale(
                     set_initial_position(ProxyNamed(h1, PyStr("chest")), "y114.5"),
                     PyFloat("1.5")), "chest")
        h2 == Append(h1, chest)
        m == [hip |-> 1, chest |-> 2, spines |-> <<>>, proxies |-> <<>>, parent_uuid |-> PyNone]
    IN set_spine_num(h2, m, 3)

SpineInit ==
    /\ heap = SpineConstructed.heap
    /\ spine = SpineConstructed.spine
    /\ lastSpineNum = 3
    /\ lastSpineOp = "none"
    /\ spineExc = "none"
    /\ spineCalls = 0

SetSpineNum(n) ==
    /\ spineCalls < MaxSpineCalls
    /\ LET r == set_spine_num(heap, spine, n)
       IN /\ heap' = r.heap
          /\ spine' = r.spine
    /\ lastSpineNum' = n
    /\ lastSpineOp' = "set_spine_num"
    /\ spineExc' = "none"
    /\ spineCalls' = spineCalls + 1

\* ---------------------------------------------------------- Proxy setters
\* One Proxy object and the calls a client makes on it.  proxyBefore is the
\* object as it was when the last call started.
VARIABLES proxy, proxyBefore, lastSetter, lastArg, proxyExc, setterCalls

proxyVars == <<proxy, proxyBefore, lastSetter, lastArg, proxyExc, setterCalls>>

\* values a caller may hand to a setter
SetterInputs ==
    { PyNone, PyStr("arm"), PyStr(""), PyStr("u05"), PyStr("s01"), PyStr("not-a-uuid"),
      PyInt(0), PyInt(2), PyFloat("1.5"), PyBool(TRUE), PyList(0), PyList(3),
      PyDict(EmptyDict), PyDict([k \in {"side"} |-> "left"]),
      TransformObj("T1"), CurveObj("circle", "circle", TRUE),
      CurveObj("broken", "broken", FALSE), ProxyObj("u07") }

\* Proxy(...) as constructed by a client: the defaults, or every field set
ConstructedProxies ==
    { NewProxy("u01"),
      set_metadata_dict(
        set_attr_dict(
          set_locator_scale(
            set_parent_uuid(
              set_offset_transform(
                set_transform(set_name(NewProxy("u02"), PyStr("leg")), TransformObj("T2")),
                TransformObj("T3")),
              PyStr("u03")),
            PyInt(3)),
          PyDict([k \in {"side"} |-> "right"])),
        PyDict([k \in {PROXY_META_TYPE} |-> "leg"])) }

ProxyInit ==
    /\ proxy \in ConstructedProxies
    /\ proxyBefore = proxy
    /\ lastSetter = "none"
    /\ lastArg = PyNone
    /\ proxyExc = "none"
    /\ setterCalls = 0

\* a call that ends with the proxy as result.proxy, raising result.exc if
\* that is not "none"
CallMethod(method, arg, result) ==
    /\ setterCalls < MaxSetterCalls
    /\ proxyBefore' = proxy
    /\ proxy' = result.proxy
    /\ proxyExc' = result.exc
    /\ lastSetter' = method
    /\ lastArg' = arg
    /\ setterCalls' = setterCalls + 1

CallSetter(setter, arg, after) == CallMethod(setter, arg, [proxy |-> after, exc |-> "none"])

SetName == \E x \in SetterInputs : CallSetter("set_name", x, set_name(proxy, x))
SetTransform == \E x \in SetterInputs : CallSetter("set_transform", x, set_transform(proxy, x))
SetOffsetTransform ==
    \E x \in SetterInputs : CallSetter("set_offset_transform", x, set_offset_transform(proxy, x))
SetCurve == \E x \in SetterInputs : CallSetter("set_curve", x, set_curve(proxy, x))
SetLocatorScale ==
    \E x \in SetterInputs : CallSetter("set_locator_scale", x, set_locator_scale(proxy, x))
SetAttrDict == \E x \in SetterInputs : CallSetter("set_attr_dict", x, set_attr_dict(proxy, x))
SetMetadataDict ==
    \E x \in SetterInputs : CallSetter("set_metadata_dict", x, set_metadata_dict(proxy, x))
SetUuid == \E x \in SetterInputs : CallSetter("set_uuid", x, set_uuid(proxy, x))
SetParentUuid == \E x \in SetterInputs : CallSetter("set_parent_uuid", x, set_parent_uuid(proxy, x))
SetParentUuidFromProxy ==
    \E x \in SetterInputs :
        CallSetter("set_parent_uuid_from_proxy", x, set_parent_uuid_from_proxy(proxy, x))

ClearParentUuid == CallSetter("clear_parent_uuid", PyNone, clear_parent_uuid(proxy))
AddMetaParent ==
    \E x \in SetterInputs : CallSetter("add_meta_parent", x, add_meta_parent(proxy, x))

\* descriptions a caller may hand to read_data_from_dict
ProxyDicts ==
    { PyNone, PyStr("arm"), PyDict(EmptyDict),
      PyDict([k \in {"name"} |-> PyStr("hand")]),
      PyDict([k \in {"color"} |-> PyStr("red")]),
      PyDict([k \in {"parent", "color"} |-> IF k = "parent" THEN PyStr("u05") ELSE PyInt(2)]),
      PyDict([k \in {"transform"} |-> get_transform_as_dict(TransformObj("T4"))]),
      PyDict([k \in {"transform"} |-> PyInt(2)]),
      PyDict([k \in {"offsetTransform"} |-> get_transform_as_dict(TransformObj("T5"))]),
      PyDict([k \in {"name", "parent", "locatorScale", "transform", "offsetTransform",
                     "attributes", "metadata", "uuid"} |->
                CASE k = "name" -> PyStr("foot")
                  [] k = "parent" -> PyStr("s02")
                  [] k = "locatorScale" -> PyInt(2)
                  [] k = "transform" -> get_transform_as_dict(TransformObj("T4"))
                  [] k = "offsetTransform" -> get_transform_as_dict(TransformObj("T5"))
                  [] k = "attributes" -> PyDict([a \in {"side"} |-> "left"])
                  [] k = "metadata" -> PyDict([a \in {PROXY_META_PARENT} |-> "u08"])
                  [] OTHER -> PyStr("u06")]) }

ReadDataFromDict ==
    \E d \in ProxyDicts, noneRaises \in BOOLEAN :
        CallMethod("read_data_from_dict", d, read_data_from_dict(proxy, d, noneRaises))

\* Proxy().read_data_from_dict(proxy.get_proxy_as_dict(include_uuid)): the
\* proxy of the state becomes the new one, proxyBefore the one described
RoundTrip ==
    \E include_uuid \in BOOLEAN, noneRaises \in BOOLEAN :
        LET fresh == NewProxy(IF proxy.uuid.v = "u09" THEN "u10" ELSE "u09")
        IN CallMethod("round_trip", PyBool(include_uuid),
                      read_data_from_dict(fresh,
                                          get_proxy_as_dict(proxy, include_uuid, TRUE, TRUE),
                                          noneRaises))

ProxyNext ==
    \/ SetName
    \/ SetTransform
    \/ SetOffsetTransform
    \/ SetCurve
    \/ SetLocatorScale
    \/ SetAttrDict
    \/ SetMetadataDict
    \/ SetUuid
    \/ SetParentUuid
    \/ SetParentUuidFromProxy
    \/ ClearParentUuid
    \/ AddMetaParent
    \/ ReadDataFromDict
    \/ RoundTrip

\* ------------------------------------------------- RigProject: the scene
\* The scene backend, reduced to what the framework reads back from it:
\* objects are found by the UUID stamped on them (proxy attribute for
\* guides, joint attribute for joints).
VARIABLES modules, scene, pc, idx, op, suspended, forcedRefresh, exc,
          bodyRaised, outcome, proxy_data_list, log, calls

buildVars == <<modules, scene, pc, idx, op, suspended, forcedRefresh, exc,
               bodyRaised, outcome, proxy_data_list, log, calls>>

EmptyScene ==
    [ proxyRoots |-> 0,                    \* root curves of create_proxy_root_curve
      rigRoots |-> 0,                      \* root curves of create_control_root_curve
      guides |-> {},                       \* proxy UUIDs stamped on guide curves
      offsetParent |-> [g \in {} |-> ""],  \* parent of each guide's offset group
      lines |-> {},                        \* visualization lines <<from, to>>
      attrs |-> [g \in {} |-> PyNone],     \* attr_dict applied to each guide
      transforms |-> [g \in {} |-> PyNone],\* transform applied to each guide
      joints |-> {},                       \* proxy UUIDs stamped on joints
      jointParent |-> [j \in {} |-> ""] ]  \* parent joint of each joint

FnPut(f, k, val) == [x \in (DOMAIN f) \cup {k} |-> IF x = k THEN val ELSE f[x]]

\* find_proxy_from_uuid / find_proxy_node_from_uuid (rig_utils)
find_proxy_from_uuid(sc, uuid) ==
    IF uuid.t = "str" /\ uuid.v \in sc.guides THEN uuid.v ELSE "None"

\* find_joint_node_from_uuid (rig_utils)
find_joint_node_from_uuid(sc, uuid) ==
    IF uuid.t = "str" /\ uuid.v \in sc.joints THEN uuid.v ELSE "None"

\* hierarchy_utils.parent on one child: nothing happens when the target or
\* the child is missing, otherwise the child ends up under the target
parent(parents, child, target_parent) ==
    IF target_parent = "None" THEN parents
    ELSE IF child = "None" \/ child \notin DOMAIN parents THEN parents
    ELSE [parents EXCEPT ![child] = target_parent]

\* Proxy.build: None for an invalid proxy, else the ProxyData of the guide
\* (identified here by its UUID)
ProxyBuildData(p) == IF is_valid(p) THEN p.uuid.v ELSE "None"

\* Proxy.build that builds without asking is_valid
ProxyBuildScene_Unchecked(sc, p) ==
    [sc EXCEPT !.guides = @ \cup {p.uuid.v},
               !.offsetParent = FnPut(@, p.uuid.v, "world")]

\* Proxy.build, effect on the scene: offset group in the world, guide under it
ProxyBuildScene(sc, p) ==
    IF ~is_valid(p) THEN sc
    ELSE [sc EXCEPT !.guides = @ \cup {p.uuid.v},
                    !.offsetParent = FnPut(@, p.uuid.v, "world")]

RECURSIVE BuildProxies(_, _, _)
BuildProxies(sc, proxies, k) ==
    IF k > Len(proxies) THEN [scene |-> sc, data |-> <<>>]
    ELSE LET rest == BuildProxies(ProxyBuildScene(sc, proxies[k]), proxies, k + 1)
         IN [scene |-> rest.scene, data |-> <<ProxyBuildData(proxies[k])>> \o rest.data]

\* ModuleGeneric.build_proxy
ModuleGeneric_build_proxy(sc, m) ==
    LET r == BuildProxies(sc, m.proxies, 1)
    IN [module |-> m, scene |-> r.scene, data |-> r.data]

\* ModuleSpine.build_proxy: the hip (first proxy) takes the module's parent
ModuleSpine_build_proxy(sc, m) ==
    LET m1 == IF Truthy(m.parent_uuid)
              THEN [m EXCEPT !.proxies[1] = set_parent_uuid(@, m.parent_uuid)]
              ELSE m
    IN ModuleGeneric_build_proxy(sc, m1)

module_build_proxy(sc, m) ==
    IF m.cls = "ModuleSpine" THEN ModuleSpine_build_proxy(sc, m)
    ELSE ModuleGeneric_build_proxy(sc, m)

\* rig_utils.parent_proxies: the offset of each built guide goes under the
\* guide of its parent_uuid, when both are found
RECURSIVE parent_proxies(_, _, _)
parent_proxies(sc, proxies, k) ==
    IF k > Len(proxies) THEN sc
    ELSE LET built == find_proxy_from_uuid(sc, proxies[k].uuid)
             par == find_proxy_from_uuid(sc, proxies[k].parent_uuid)
             sc1 == IF built # "None" /\ par # "None"
                    THEN [sc EXCEPT !.offsetParent = parent(@, built, par)]
                    ELSE sc
         IN parent_proxies(sc1, proxies, k + 1)

\* rig_utils.create_proxy_visualization_lines: a line from each built guide
\* to the guide of its meta parent
RECURSIVE create_proxy_visualization_lines(_, _, _)
create_proxy_visualization_lines(sc, proxies, k) ==
    IF k > Len(proxies) THEN sc
    ELSE LET built == find_proxy_from_uuid(sc, proxies[k].uuid)
             par == find_proxy_from_uuid(sc, PyStr(get_meta_parent_uuid(proxies[k])))
             sc1 == IF built # "None" /\ par # "None"
                    THEN [sc EXCEPT !.lines = @ \cup {<<built, par>>}]
                    ELSE sc
         IN create_proxy_visualization_lines(sc1, proxies, k + 1)

\* Proxy.apply_attr_dict for every proxy of the module
RECURSIVE apply_attr_dicts(_, _, _)
apply_attr_dicts(sc, proxies, k) ==
    IF k > Len(proxies) THEN sc
    ELSE LET target_obj == find_proxy_from_uuid(sc, proxies[k].uuid)
             sc1 == IF target_obj # "None" /\ Truthy(proxies[k].attr_dict)
                    THEN [sc EXCEPT !.attrs = FnPut(@, target_obj, proxies[k].attr_dict)]
                    ELSE sc
         IN apply_attr_dicts(sc1, proxies, k + 1)

\* ModuleGeneric.apply_transforms / build_proxy_post (ModuleSpine's override
\* ends with the same apply_transforms on each of its proxies)
RECURSIVE build_proxy_post(_, _, _)
build_proxy_post(sc, proxies, k) ==
    IF k > Len(proxies) THEN sc
    ELSE LET proxy_crv == find_proxy_from_uuid(sc, proxies[k].uuid)
             sc1 == IF proxy_crv # "None" /\ Truthy(proxies[k].transform)
                    THEN [sc EXCEPT !.transforms = FnPut(@, proxy_crv, proxies[k].transform)]
                    ELSE sc
         IN build_proxy_post(sc1, proxies, k + 1)

\* build_rig that parents each new joint under the joint of the proxy's
\* parent_uuid right away
RECURSIVE ModuleGeneric_build_rig_Parented(_, _, _)
ModuleGeneric_build_rig_Parented(sc, proxies, k) ==
    IF k > Len(proxies) THEN sc
    ELSE LET proxy_node == find_proxy_from_uuid(sc, proxies[k].uuid)
             parent_joint_node == find_joint_node_from_uuid(sc, proxies[k].parent_uuid)
             sc1 == IF proxy_node = "None" THEN sc
                    ELSE [sc EXCEPT !.joints = @ \cup {proxies[k].uuid.v},
                                    !.jointParent =
                                        parent(FnPut(@, proxies[k].uuid.v, "world"),
                                               proxies[k].uuid.v, parent_joint_node)]
         IN ModuleGeneric_build_rig_Parented(sc1, proxies, k + 1)

\* ModuleGeneric.build_rig: one unparented joint per proxy whose guide is found
RECURSIVE ModuleGeneric_build_rig(_, _, _)
ModuleGeneric_build_rig(sc, proxies, k) ==
    IF k > Len(proxies) THEN sc
    ELSE LET proxy_node == find_proxy_from_uuid(sc, proxies[k].uuid)
             sc1 == IF proxy_node = "None" THEN sc
                    ELSE [sc EXCEPT !.joints = @ \cup {proxies[k].uuid.v},
                                    !.jointParent = FnPut(@, proxies[k].uuid.v, "world")]
         IN ModuleGeneric_build_rig(sc1, proxies, k + 1)

\* ModuleSpine.build_rig overrides without calling the inherited method: it
\* looks joints up and builds its automation skeleton, stamping no joint
module_build_rig(sc, m) ==
    IF m.cls = "ModuleSpine" THEN sc
    ELSE ModuleGeneric_build_rig(sc, m.proxies, 1)

\* build_rig_post that gives up on the module at the first proxy whose
\* parent joint is not found
RECURSIVE build_rig_post_StopAtMissing(_, _, _)
build_rig_post_StopAtMissing(sc, proxies, k) ==
    IF k > Len(proxies) THEN sc
    ELSE LET joint == find_joint_node_from_uuid(sc, proxies[k].uuid)
             parent_joint_node == find_joint_node_from_uuid(sc, proxies[k].parent_uuid)
         IN IF joint = "None" \/ parent_joint_node = "None" THEN sc
            ELSE build_rig_post_StopAtMissing(
                     [sc EXCEPT !.jointParent = parent(@, joint, parent_joint_node)],
                     proxies, k + 1)

\* build_rig_post that parents a joint under the joint of the meta parent
RECURSIVE build_rig_post_ByMetaParent(_, _, _)
build_rig_post_ByMetaParent(sc, proxies, k) ==
    IF k > Len(proxies) THEN sc
    ELSE LET joint == find_joint_node_from_uuid(sc, proxies[k].uuid)
             parent_joint_node ==
                 find_joint_node_from_uuid(sc, PyStr(get_meta_parent_uuid(proxies[k])))
             sc1 == IF joint = "None" THEN sc
                    ELSE [sc EXCEPT !.jointParent = parent(@, joint, parent_joint_node)]
         IN build_rig_post_ByMetaParent(sc1, proxies, k + 1)

\* ModuleGeneric.build_rig_post: each found joint goes under the joint of
\* the proxy's parent_uuid
RECURSIVE build_rig_post(_, _, _)
build_rig_post(sc, proxies, k) ==
    IF k > Len(proxies) THEN sc
    ELSE LET joint == find_joint_node_from_uuid(sc, proxies[k].uuid)
             parent_joint_node == find_joint_node_from_uuid(sc, proxies[k].parent_uuid)
             sc1 == IF joint = "None" THEN sc
                    ELSE [sc EXCEPT !.jointParent = parent(@, joint, parent_joint_node)]
         IN build_rig_post(sc1, proxies, k + 1)

\* ------------------------------------------------ RigProject: the project
\* UUID of proxy k (1 = root, 2 = tip) of the module numbered m
ModUuid(m, k) == GeneratedUuids[(m - 1) * 2 + k]

\* A module as a client assembles it: a root proxy and a tip proxy parented
\* (and meta-parented) to the root.  attach says how the module hangs on the
\* root proxy of module 1: not at all, by the module's parent_uuid, or by
\* the root proxy's parent_uuid.  unnamed gives the tip an empty name.
MakeModule(m, cls, active, attach, unnamed) ==
    LET root0 == set_name(NewProxy(ModUuid(m, 1)), PyStr("root"))
        root == IF attach = "proxy" THEN set_parent_uuid(root0, PyStr(ModUuid(1, 1)))
                ELSE root0
        tip0 == set_name(NewProxy(ModUuid(m, 2)), PyStr(IF unnamed THEN "" ELSE "tip"))
        tip == set_parent_uuid(add_meta_parent(tip0, root.uuid), root.uuid)
    IN [ id |-> m,
         cls |-> cls,
         active |-> active,
         parent_uuid |-> IF attach = "module" THEN PyStr(ModUuid(1, 1)) ELSE PyNone,
         proxies |-> <<root, tip>> ]

ModuleClasses == {"ModuleGeneric", "ModuleSpine"}

\* The modules a client may add under the number m.  Module 1 is the one
\* the others attach to.  The build methods read nothing of an inactive
\* module but its active state, so an inactive module varies by class only.
ModuleChoices(m) ==
    IF m = 1
    THEN { MakeModule(1, c, TRUE, "none", u) : c \in ModuleClasses, u \in BOOLEAN }
         \cup { MakeModule(1, c, FALSE, "none", FALSE) : c \in ModuleClasses }
    ELSE { MakeModule(m, c, TRUE, at, FALSE) :
             c \in ModuleClasses, at \in {"none", "module", "proxy"} }
         \cup { MakeModule(m, c, FALSE, "none", FALSE) : c \in ModuleClasses }

\* The orders in which the modules are added: modules 2..n in turn, with
\* module 1 before, between or after them, or left out.  Modules 2..n are
\* built from the same choices, so their mutual order adds no case.
ModuleOrders ==
    UNION { { [i \in 1..n |-> IF i < k THEN i + 1 ELSE IF i = k THEN 1 ELSE i] : k \in 1..n }
            \cup { [i \in 1..(n - 1) |-> i + 1] }
            : n \in 1..MaxModules } \ {<<>>}

\* RigProject.modules after add_to_modules
Projects ==
    UNION { { ms \in [DOMAIN ids -> UNION {ModuleChoices(m) : m \in 1..MaxModules}] :
                \A i \in DOMAIN ids : ms[i] \in ModuleChoices(ids[i]) }
            : ids \in ModuleOrders }

BuildInit ==
    /\ modules \in Projects
    /\ scene = EmptyScene
    /\ pc = "idle"
    /\ idx = 0
    /\ op = "none"
    /\ suspended = FALSE
    /\ forcedRefresh = FALSE
    /\ exc = "none"
    /\ bodyRaised = FALSE
    /\ outcome = "none"
    /\ proxy_data_list = <<>>
    /\ log = <<>>
    /\ calls = 0

\* ModuleGeneric.get_active_state
get_active_state_AlwaysActive(m) == TRUE

get_active_state(m) == m.active

LogEntry(phase, m, done) == [phase |-> phase, module |-> m.id, done |-> done]

\* an exception leaves the try body
Raise(kind) ==
    /\ pc' = "except"
    /\ exc' = kind
    /\ bodyRaised' = TRUE

Continue(nextPc, nextIdx) ==
    /\ pc' = nextPc
    /\ idx' = nextIdx
    /\ UNCHANGED <<exc, bodyRaised>>

\* position after the loop body ran for module idx
AfterModule(loopPc, donePc) ==
    IF idx < Len(modules) THEN Continue(loopPc, idx + 1)
    ELSE Continue(donePc, IF donePc = "br_post" THEN 1 ELSE 0)

\* cmds.refresh(suspend=True), then the try block is entered
EnterCall(name, firstPc) ==
    /\ pc = "idle"
    /\ calls < MaxCalls
    /\ calls' = calls + 1
    /\ op' = name
    /\ suspended' = TRUE
    /\ forcedRefresh' = FALSE
    /\ exc' = "none"
    /\ bodyRaised' = FALSE
    /\ outcome' = "none"
    /\ proxy_data_list' = <<>>
    /\ log' = <<>>
    /\ pc' = firstPc
    /\ idx' = 0
    /\ UNCHANGED <<modules, scene>>

CallBuildProxy == EnterCall("build_proxy", "bp_setup")

\* root curve and setup group; a backend command may fail
BuildProxySetup ==
    /\ pc = "bp_setup"
    /\ \E fails \in BOOLEAN :
         IF fails
         THEN Raise("RuntimeError") /\ UNCHANGED <<scene, idx>>
         ELSE /\ scene' = [scene EXCEPT !.proxyRoots = @ + 1]
              /\ Continue("bp_build", 1)
    /\ UNCHANGED <<modules, op, suspended, forcedRefresh, outcome, proxy_data_list, log, calls>>

\* build_proxy with a single loop: each module is built, parented and
\* post-processed before the next module is built
BuildProxyModules_SinglePass ==
    /\ pc = "bp_build"
    /\ LET module == modules[idx]
       IN IF ~get_active_state(module)
          THEN AfterModule("bp_build", "bp_place")
               /\ UNCHANGED <<modules, scene, proxy_data_list, log>>
          ELSE LET r == module_build_proxy(scene, module)
                   s1 == parent_proxies(r.scene, r.module.proxies, 1)
               IN /\ modules' = [modules EXCEPT ![idx] = r.module]
                  /\ scene' = build_proxy_post(s1, r.module.proxies, 1)
                  /\ proxy_data_list' = proxy_data_list \o r.data
                  /\ log' = log \o <<LogEntry("build_proxy", module, TRUE),
                                      LogEntry("build_proxy_post", module, TRUE)>>
                  /\ AfterModule("bp_build", "bp_place")
    /\ UNCHANGED <<op, suspended, forcedRefresh, outcome, calls>>

\* first loop: module.build_proxy() of each active module
BuildProxyModules ==
    /\ pc = "bp_build"
    /\ LET module == modules[idx]
       IN IF ~get_active_state(module)
          THEN AfterModule("bp_build", "bp_place")
               /\ UNCHANGED <<modules, scene, proxy_data_list, log>>
          ELSE \E fails \in BOOLEAN :
                 IF fails
                 THEN /\ Raise("RuntimeError")
                      /\ log' = Append(log, LogEntry("build_proxy", module, FALSE))
                      /\ UNCHANGED <<modules, scene, proxy_data_list, idx>>
                 ELSE LET r == module_build_proxy(scene, module)
                      IN /\ modules' = [modules EXCEPT ![idx] = r.module]
                         /\ scene' = r.scene
                         /\ proxy_data_list' = proxy_data_list \o r.data
                         /\ log' = Append(log, LogEntry("build_proxy", module, TRUE))
                         /\ AfterModule("bp_build", "bp_place")
    /\ UNCHANGED <<op, suspended, forcedRefresh, outcome, calls>>

\* second loop: every ProxyData goes under the shared roots; None has no
\* get_long_name, so the loop stops there with an AttributeError
RECURSIVE PlaceProxyData(_, _, _)
PlaceProxyData(sc, data, k) ==
    IF k > Len(data) THEN [scene |-> sc, raised |-> FALSE]
    ELSE IF data[k] = "None" THEN [scene |-> sc, raised |-> TRUE]
    ELSE PlaceProxyData([sc EXCEPT !.offsetParent = parent(@, data[k], "root")], data, k + 1)

BuildProxyPlace ==
    /\ pc = "bp_place"
    /\ LET r == PlaceProxyData(scene, proxy_data_list, 1)
       IN /\ scene' = r.scene
          /\ IF r.raised
             THEN Raise("AttributeError") /\ UNCHANGED idx
             ELSE Continue("bp_post", 1)
    /\ UNCHANGED <<modules, op, suspended, forcedRefresh, outcome, proxy_data_list, log, calls>>

\* third loop: parent_proxies, visualization lines, apply_attr_dict and
\* build_proxy_post of each active module
BuildProxyPost ==
    /\ pc = "bp_post"
    /\ LET module == modules[idx]
       IN IF ~get_active_state(module)
          THEN AfterModule("bp_post", "finally") /\ UNCHANGED <<scene, log>>
          ELSE \E fails \in BOOLEAN :
                 IF fails
                 THEN /\ Raise("RuntimeError")
                      /\ log' = Append(log, LogEntry("build_proxy_post", module, FALSE))
                      /\ UNCHANGED <<scene, idx>>
                 ELSE LET s1 == parent_proxies(scene, module.proxies, 1)
                          s2 == create_proxy_visualization_lines(s1, module.proxies, 1)
                          s3 == apply_attr_dicts(s2, module.proxies, 1)
                      IN /\ scene' = build_proxy_post(s3, module.proxies, 1)
                         /\ log' = Append(log, LogEntry("build_proxy_post", module, TRUE))
                         /\ AfterModule("bp_post", "finally")
    /\ UNCHANGED <<modules, op, suspended, forcedRefresh, outcome, proxy_data_list, calls>>

CallBuildRig == EnterCall("build_rig", "br_setup")

BuildRigSetup ==
    /\ pc = "br_setup"
    /\ \E fails \in BOOLEAN :
         IF fails
         THEN Raise("RuntimeError") /\ UNCHANGED <<scene, idx>>
         ELSE /\ scene' = [scene EXCEPT !.rigRoots = @ + 1]
              /\ Continue("br_build", 1)
    /\ UNCHANGED <<modules, op, suspended, forcedRefresh, outcome, proxy_data_list, log, calls>>

\* build_rig with a single loop: each module's joints are parented right
\* after they are created
BuildRigModules_SinglePass ==
    /\ pc = "br_build"
    /\ LET module == modules[idx]
       IN IF ~get_active_state(module)
          THEN AfterModule("br_build", "br_post") /\ UNCHANGED <<scene, log>>
          ELSE /\ scene' = build_rig_post(module_build_rig(scene, module), module.proxies, 1)
               /\ log' = log \o <<LogEntry("build_rig", module, TRUE),
                                   LogEntry("build_rig_post", module, TRUE)>>
               /\ AfterModule("br_build", "br_post")
    /\ UNCHANGED <<modules, op, suspended, forcedRefresh, outcome, proxy_data_list, calls>>

\* first loop: module.build_rig() of each active module
BuildRigModules ==
    /\ pc = "br_build"
    /\ LET module == modules[idx]
       IN IF ~get_active_state(module)
          THEN AfterModule("br_build", "br_post") /\ UNCHANGED <<scene, log>>
          ELSE \E fails \in BOOLEAN :
                 IF fails
                 THEN /\ Raise("RuntimeError")
                      /\ log' = Append(log, LogEntry("build_rig", module, FALSE))
                      /\ UNCHANGED <<scene, idx>>
                 ELSE /\ scene' = module_build_rig(scene, module)
                      /\ log' = Append(log, LogEntry("build_rig", module, TRUE))
                      /\ AfterModule("br_build", "br_post")
    /\ UNCHANGED <<modules, op, suspended, forcedRefresh, outcome, proxy_data_list, calls>>

\* second loop: module.build_rig_post() of each active module
BuildRigPost ==
    /\ pc = "br_post"
    /\ LET module == modules[idx]
       IN IF ~get_active_state(module)
          THEN AfterModule("br_post", "finally") /\ UNCHANGED <<scene, log>>
          ELSE \E fails \in BOOLEAN :
                 IF fails
                 THEN /\ Raise("RuntimeError")
                      /\ log' = Append(log, LogEntry("build_rig_post", module, FALSE))
                      /\ UNCHANGED <<scene, idx>>
                 ELSE /\ scene' = build_rig_post(scene, module.proxies, 1)
                      /\ log' = Append(log, LogEntry("build_rig_post", module, TRUE))
                      /\ AfterModule("br_post", "finally")
    /\ UNCHANGED <<modules, op, suspended, forcedRefresh, outcome, proxy_data_list, calls>>

\* an except clause that logs the exception and goes on
ExceptHandler_Swallow ==
    /\ pc = "except"
    /\ pc' = "finally"
    /\ exc' = "none"
    /\ UNCHANGED <<modules, scene, idx, op, suspended, forcedRefresh, bodyRaised,
                   outcome, proxy_data_list, log, calls>>

\* except Exception as e: raise e
ExceptHandler ==
    /\ pc = "except"
    /\ pc' = "finally"
    /\ UNCHANGED <<modules, scene, idx, op, suspended, forcedRefresh, exc, bodyRaised,
                   outcome, proxy_data_list, log, calls>>

\* the resume placed at the end of the try body: skipped by an exception
Finally_OnlyOnSuccess ==
    /\ pc = "finally"
    /\ suspended' = (exc # "none")
    /\ forcedRefresh' = (exc = "none")
    /\ pc' = "exit"
    /\ UNCHANGED <<modules, scene, idx, op, exc, bodyRaised, outcome, proxy_data_list,
                   log, calls>>

\* finally: cmds.refresh(suspend=False); cmds.refresh()
Finally ==
    /\ pc = "finally"
    /\ suspended' = FALSE
    /\ forcedRefresh' = TRUE
    /\ pc' = "exit"
    /\ UNCHANGED <<modules, scene, idx, op, exc, bodyRaised, outcome, proxy_data_list,
                   log, calls>>

\* control is back in the caller, with the pending exception if there is one
Exit ==
    /\ pc = "exit"
    /\ outcome' = IF exc = "none" THEN "returned" ELSE "raised"
    /\ pc' = "idle"
    /\ UNCHANGED <<modules, scene, idx, op, suspended, forcedRefresh, exc, bodyRaised,
                   proxy_data_list, log, calls>>

BuildNext ==
    \/ CallBuildProxy
    \/ BuildProxySetup
    \/ BuildProxyModules
    \/ BuildProxyPlace
    \/ BuildProxyPost
    \/ CallBuildRig
    \/ BuildRigSetup
    \/ BuildRigModules
    \/ BuildRigPost
    \/ ExceptHandler
    \/ Finally
    \/ Exit

\* ------------------------------------------- modules and projects as data
\* A list given by its items, and a dictionary given by its keys in
\* insertion order (the order dict.items() yields them).
PyListOf(items) == [t |-> "list", v |-> Len(items), items |-> items]
ListItems(x) == IF "items" \in DOMAIN x THEN x.items ELSE [i \in 1..x.v |-> PyInt(i)]
PyDictOf(keys, f) == [t |-> "dict", v |-> f, keys |-> keys]
ModuleObj(cls) == [t |-> "Module", v |-> cls]

\* the classes of RigModules (rig_modules is not part of the sources)
AvailableModules == {"ModuleGeneric", "ModuleSpine"}

\* class_name as read_modules_from_dict looks it up: prefixed with "Module"
\* unless it starts with it
WithModulePrefix(class_name) ==
    CASE class_name = "Generic" -> "ModuleGeneric"
      [] class_name = "Spine" -> "ModuleSpine"
      [] class_name = "Tail" -> "ModuleTail"
      [] OTHER -> class_name

\* ModuleGeneric.__init__ with no arguments
NewModule(cls) ==
    [ cls |-> cls,
      name |-> PyNone,
      prefix |-> PyNone,
      proxies |-> <<>>,
      parent_uuid |-> PyNone,
      metadata |-> PyNone,
      active |-> TRUE ]

ModuleGeneric_set_name(m, name) ==
    IF name.t # "str" THEN m ELSE [m EXCEPT !.name = name]

ModuleGeneric_set_prefix(m, prefix) ==
    IF ~Truthy(prefix) \/ prefix.t # "str" THEN m ELSE [m EXCEPT !.prefix = prefix]

\* an item of a list of proxies: Proxy(uuid=...) as the client constructed it
ItemObject(item) == IF item.t = "Proxy" THEN NewProxy(item.v) ELSE item

ModuleGeneric_set_proxies(m, proxy_list) ==
    IF ~Truthy(proxy_list) \/ proxy_list.t # "list" THEN m
    ELSE [m EXCEPT !.proxies =
            [i \in 1..Len(ListItems(proxy_list)) |-> ItemObject(ListItems(proxy_list)[i])]]

ModuleGeneric_add_to_proxies(m, new_proxy) ==
    LET items == IF Truthy(new_proxy) /\ new_proxy.t = "Proxy" THEN <<new_proxy>>
                 ELSE IF Truthy(new_proxy) /\ new_proxy.t = "list" THEN ListItems(new_proxy)
                 ELSE <<>>
        IsProxy(obj) == obj.t = "Proxy"
        added == SelectSeq(items, IsProxy)
    IN [m EXCEPT !.proxies = @ \o [i \in 1..Len(added) |-> ItemObject(added[i])]]

ModuleGeneric_set_metadata_dict(m, metadata) ==
    IF metadata.t # "dict" THEN m ELSE [m EXCEPT !.metadata = metadata]

ModuleGeneric_set_active_state(m, is_active) ==
    IF is_active.t # "bool" THEN m ELSE [m EXCEPT !.active = is_active.v]

ModuleGeneric_set_parent_uuid(m, uuid) ==
    IF ~Truthy(uuid) \/ uuid.t # "str" THEN m
    ELSE IF is_uuid_valid(uuid.v) \/ is_short_uuid_valid(uuid.v)
         THEN [m EXCEPT !.parent_uuid = uuid]
         ELSE m

ModuleGeneric_clear_parent_uuid(m) == [m EXCEPT !.parent_uuid = PyNone]

ModuleGeneric_is_valid(m) == m.proxies # <<>>

\* The loop of read_proxies_from_dict from key number k on; n counts the
\* UUIDs generated so far.  An exception leaves the list as far as it got.
RECURSIVE ReadProxies(_, _, _, _, _)
ReadProxies(m, n, proxy_dict, k, noneRaises) ==
    IF k > Len(proxy_dict.keys) THEN [module |-> m, exc |-> "none", uuidCount |-> n]
    ELSE LET r == read_data_from_dict(
                      set_uuid(NewProxy(generate_uuid(n + 1)), PyStr(proxy_dict.keys[k])),
                      proxy_dict.v[proxy_dict.keys[k]], noneRaises)
         IN IF r.exc # "none"
            THEN [module |-> m, exc |-> r.exc, uuidCount |-> n + 1]
            ELSE ReadProxies([m EXCEPT !.proxies = Append(@, r.proxy)], n + 1,
                             proxy_dict, k + 1, noneRaises)

\* ModuleGeneric.read_proxies_from_dict
ModuleGeneric_read_proxies_from_dict(m, n, proxy_dict, noneRaises) ==
    IF ~Truthy(proxy_dict) \/ proxy_dict.t # "dict"
    THEN [module |-> m, exc |-> "none", uuidCount |-> n]
    ELSE ReadProxies([m EXCEPT !.proxies = <<>>], n, proxy_dict, 1, noneRaises)

\* name, prefix and parent of a module description
ReadModuleHead(m, d) ==
    WhenTruthy(PyGet(d, "parent"),
               WhenTruthy(PyGet(d, "prefix"),
                          WhenTruthy(PyGet(d, "name"), m, ModuleGeneric_set_name),
                          ModuleGeneric_set_prefix),
               ModuleGeneric_set_parent_uuid)

\* proxies: read when the value is a non-empty dictionary
ReadModuleProxies(m, n, _proxies, noneRaises) ==
    IF Truthy(_proxies) /\ _proxies.t = "dict"
    THEN ModuleGeneric_read_proxies_from_dict(m, n, _proxies, noneRaises)
    ELSE [module |-> m, exc |-> "none", uuidCount |-> n]

\* active (when a bool) and metadata, unless reading the proxies raised
ReadModuleTail(r, d) ==
    IF r.exc # "none" THEN r
    ELSE [r EXCEPT !.module =
            WhenTruthy(PyGet(d, "metadata"),
                       ModuleGeneric_set_active_state(@, PyGet(d, "active")),
                       ModuleGeneric_set_metadata_dict)]

\* ModuleGeneric.read_data_from_dict
ModuleGeneric_read_data_from_dict(m, n, module_dict, noneRaises) ==
    IF Truthy(module_dict) /\ module_dict.t # "dict"
    THEN [module |-> m, exc |-> "none", uuidCount |-> n]
    ELSE IF module_dict.t # "dict"
    THEN [module |-> m, exc |-> "AttributeError", uuidCount |-> n]
    ELSE ReadModuleTail(
             ReadModuleProxies(ReadModuleHead(m, module_dict.v), n,
                               PyGet(module_dict.v, "proxies"), noneRaises),
             module_dict.v)

\* RigProject.__init__ with no arguments
NewProject ==
    [ name |-> PyStr("Untitled"), prefix |-> PyNone, modules |-> <<>>, metadata |-> PyNone ]

RigProject_set_name(pr, name) ==
    IF name.t # "str" THEN pr ELSE [pr EXCEPT !.name = name]

RigProject_set_prefix(pr, prefix) ==
    IF ~Truthy(prefix) \/ prefix.t # "str" THEN pr ELSE [pr EXCEPT !.prefix = prefix]

RigProject_set_metadata_dict(pr, metadata) ==
    IF metadata.t # "dict" THEN pr ELSE [pr EXCEPT !.metadata = metadata]

\* RigProject.add_to_modules: the module objects are new ones of their class
add_to_modules(pr, module) ==
    LET InRegistry(obj) == obj.t = "Module" /\ obj.v \in AvailableModules
        items == IF Truthy(module) /\ InRegistry(module) THEN <<module>>
                 ELSE IF Truthy(module) /\ module.t = "list" THEN ListItems(module)
                 ELSE <<>>
        added == SelectSeq(items, InRegistry)
    IN [pr EXCEPT !.modules = @ \o [i \in 1..Len(added) |-> NewModule(added[i].v)]]

\* The loop of read_modules_from_dict from key number k on, skipping the
\* classes that RigModules does not have
RECURSIVE ReadModules_SkipUnknown(_, _, _, _, _)
ReadModules_SkipUnknown(pr, n, modules_dict, k, noneRaises) ==
    IF k > Len(modules_dict.keys) THEN [project |-> pr, exc |-> "none", uuidCount |-> n]
    ELSE LET class_name == WithModulePrefix(modules_dict.keys[k])
             r == ModuleGeneric_read_data_from_dict(
                      NewModule(class_name), n, modules_dict.v[modules_dict.keys[k]], noneRaises)
         IN IF class_name \notin AvailableModules
            THEN ReadModules_SkipUnknown(pr, n, modules_dict, k + 1, noneRaises)
            ELSE IF r.exc # "none"
            THEN [project |-> pr, exc |-> r.exc, uuidCount |-> r.uuidCount]
            ELSE ReadModules_SkipUnknown([pr EXCEPT !.modules = Append(@, r.module)],
                                         r.uuidCount, modules_dict, k + 1, noneRaises)

\* The loop of read_modules_from_dict from key number k on: a class that
\* RigModules does not have is read into a ModuleGeneric
RECURSIVE ReadModules(_, _, _, _, _)
ReadModules(pr, n, modules_dict, k, noneRaises) ==
    IF k > Len(modules_dict.keys) THEN [project |-> pr, exc |-> "none", uuidCount |-> n]
    ELSE LET class_name == WithModulePrefix(modules_dict.keys[k])
             _module == IF class_name \in AvailableModules
                        THEN NewModule(class_name) ELSE NewModule("ModuleGeneric")
             r == ModuleGeneric_read_data_from_dict(
                      _module, n, modules_dict.v[modules_dict.keys[k]], noneRaises)
         IN IF r.exc # "none"
            THEN [project |-> pr, exc |-> r.exc, uuidCount |-> r.uuidCount]
            ELSE ReadModules([pr EXCEPT !.modules = Append(@, r.module)],
                             r.uuidCount, modules_dict, k + 1, noneRaises)

\* RigProject.read_modules_from_dict
read_modules_from_dict(pr, n, modules_dict, noneRaises) ==
    IF ~Truthy(modules_dict) \/ modules_dict.t # "dict"
    THEN [project |-> pr, exc |-> "none", uuidCount |-> n]
    ELSE ReadModules([pr EXCEPT !.modules = <<>>], n, modules_dict, 1, noneRaises)

\* the reset at the top of RigProject.read_data_from_dict
ResetProject(pr) == [pr EXCEPT !.modules = <<>>, !.metadata = PyNone]

\* name and prefix of a project description
ReadProjectHead(pr, d) ==
    WhenTruthy(PyGet(d, "prefix"),
               WhenTruthy(PyGet(d, "name"), pr, RigProject_set_name),
               RigProject_set_prefix)

\* modules: read when the value is a non-empty dictionary
ReadProjectModules(pr, n, _modules, noneRaises) ==
    IF Truthy(_modules) /\ _modules.t = "dict"
    THEN read_modules_from_dict(pr, n, _modules, noneRaises)
    ELSE [project |-> pr, exc |-> "none", uuidCount |-> n]

\* metadata, unless reading the modules raised
ReadProjectTail(r, d) ==
    IF r.exc # "none" THEN r
    ELSE [r EXCEPT !.project =
            WhenTruthy(PyGet(d, "metadata"), @, RigProject_set_metadata_dict)]

\* RigProject.read_data_from_dict: modules and metadata are reset first
RigProject_read_data_from_dict(pr, n, module_dict, noneRaises) ==
    IF Truthy(module_dict) /\ module_dict.t # "dict"
    THEN [project |-> ResetProject(pr), exc |-> "none", uuidCount |-> n]
    ELSE IF module_dict.t # "dict"
    THEN [project |-> ResetProject(pr), exc |-> "AttributeError", uuidCount |-> n]
    ELSE ReadProjectTail(
             ReadProjectModules(ReadProjectHead(ResetProject(pr), module_dict.v), n,
                                PyGet(module_dict.v, "modules"), noneRaises),
             module_dict.v)

\* module_data["key"] = value under "if value:"
PutWhenTruthy(d, key, value) == IF Truthy(value) THEN DictPut(d, key, value) ELSE d

\* D[key] = value on a dictionary that keeps its insertion order: a key the
\* dictionary already has keeps its place and gets the new value
PyDictInsert(D, key, value) ==
    PyDictOf(IF key \in DOMAIN D.v THEN D.keys ELSE Append(D.keys, key),
             DictPut(D.v, key, value))

\* the "for proxy in self.proxies" loop of get_module_as_dict from proxy k on
RECURSIVE ModuleProxiesDict(_, _, _, _)
ModuleProxiesDict(D, proxies, k, include_offset_data) ==
    IF k > Len(proxies) THEN D
    ELSE ModuleProxiesDict(
             PyDictInsert(D, proxies[k].uuid.v,
                          get_proxy_as_dict(proxies[k], FALSE, TRUE, include_offset_data)),
             proxies, k + 1, include_offset_data)

\* ModuleGeneric.get_module_as_dict (include_module_name=False)
get_module_as_dict(m, include_offset_data) ==
    PyDict(DictPut(
        PutWhenTruthy(
            PutWhenTruthy(
                PutWhenTruthy(
                    DictPut(PutWhenTruthy(EmptyDict, "name", m.name),
                            "active", PyBool(m.active)),
                    "prefix", m.prefix),
                "parent", m.parent_uuid),
            "metadata", m.metadata),
        "proxies",
        ModuleProxiesDict(PyDictOf(<<>>, EmptyDict), m.proxies, 1, include_offset_data)))

\* get_module_class_name(remove_module_prefix=True)
get_module_class_name(m) ==
    CASE m.cls = "ModuleGeneric" -> "Generic"
      [] m.cls = "ModuleSpine" -> "Spine"
      [] OTHER -> m.cls

\* the "for module in self.modules" loop of get_project_as_dict from module
\* k on: the key is the class name without its "Module" prefix
RECURSIVE ProjectModulesDict(_, _, _)
ProjectModulesDict(D, mods, k) ==
    IF k > Len(mods) THEN D
    ELSE ProjectModulesDict(
             PyDictInsert(D, get_module_class_name(mods[k]),
                          get_module_as_dict(mods[k], TRUE)),
             mods, k + 1)

\* RigProject.get_project_as_dict
get_project_as_dict(pr) ==
    PyDict(PutWhenTruthy(
        DictPut(
            PutWhenTruthy(PutWhenTruthy(EmptyDict, "name", pr.name), "prefix", pr.prefix),
            "modules", ProjectModulesDict(PyDictOf(<<>>, EmptyDict), pr.modules, 1)),
        "metadata", pr.metadata))

\* One RigProject and the calls a client makes on it, on its modules and
\* on their proxies.  projectBefore and uuidCountBefore are the state in
\* which the last call started, uuidCount the number of generated UUIDs.
VARIABLES project, projectBefore, uuidCount, uuidCountBefore, lastOp, opExc, opCalls

dataVars == <<project, projectBefore, uuidCount, uuidCountBefore, lastOp, opExc, opCalls>>

NoOp == [name |-> "none", k |-> 0, j |-> 0, arg |-> PyNone]

\* RigProject(), bare or with a ModuleGeneric that holds one Proxy()
ConstructedProjects ==
    { [project |-> NewProject, uuidCount |-> 0],
      [project |-> add_to_modules(NewProject, ModuleObj("ModuleGeneric")), uuidCount |-> 0],
      [project |->
          [NewProject EXCEPT !.modules =
              <<ModuleGeneric_add_to_proxies(NewModule("ModuleGeneric"),
                                             ProxyObj(generate_uuid(1)))>>],
       uuidCount |-> 1] }

DataInit ==
    /\ \E c \in ConstructedProjects :
          /\ project = c.project
          /\ uuidCount = c.uuidCount
    /\ projectBefore = project
    /\ uuidCountBefore = uuidCount
    /\ lastOp = NoOp
    /\ opExc = "none"
    /\ opCalls = 0

\* values a caller may hand over as a UUID
UuidInputs == {PyNone, PyStr(""), PyStr("u25"), PyStr("s01"), PyStr("not-a-uuid"), PyInt(2)}

\* values a caller may hand to add_to_proxies / set_proxies
ProxyInputs ==
    { PyNone, PyStr("arm"), ProxyObj("u21"), PyListOf(<<>>),
      PyListOf(<<ProxyObj("u21"), ProxyObj("u22")>>),
      PyList(2) }

\* {"uuid": description} dictionaries a caller may hand to read_proxies_from_dict
ProxiesDicts ==
    { PyNone,
      PyDictOf(<<>>, EmptyDict),
      PyDictOf(<<"u25", "u26">>,
               [u \in {"u25", "u26"} |->
                  IF u = "u25" THEN PyDict([a \in {"name"} |-> PyStr("hip")])
                  ELSE PyDict([a \in {"name", "parent"} |->
                                 IF a = "name" THEN PyStr("knee") ELSE PyStr("u25")])]),
      PyDictOf(<<"u25">>, [u \in {"u25"} |-> PyNone]),
      PyDictOf(<<"u25", "u26">>,
               [u \in {"u25", "u26"} |->
                  IF u = "u25" THEN PyDict([a \in {"uuid"} |-> PyStr("u26")])
                  ELSE PyDict(EmptyDict)]),
      PyDictOf(<<"toe">>,
               [u \in {"toe"} |->
                  PyDict([a \in {"name", "parent"} |->
                            IF a = "name" THEN PyStr("toe") ELSE PyStr("not-a-uuid")])]) }

\* module descriptions a caller may hand to ModuleGeneric.read_data_from_dict
ModuleDicts ==
    { PyNone,
      PyDict(EmptyDict),
      PyDict([a \in {"name", "prefix", "parent", "active", "proxies", "metadata"} |->
                CASE a = "name" -> PyStr("tail")
                  [] a = "prefix" -> PyStr("C")
                  [] a = "parent" -> PyStr("u27")
                  [] a = "active" -> PyBool(FALSE)
                  [] a = "proxies" ->
                       PyDictOf(<<"u25", "u26">>,
                                [u \in {"u25", "u26"} |->
                                   IF u = "u25" THEN PyDict([b \in {"name"} |-> PyStr("base")])
                                   ELSE PyDict([b \in {"name", "parent"} |->
                                                  IF b = "name" THEN PyStr("tip")
                                                  ELSE PyStr("u25")])])
                  [] OTHER -> PyDict([b \in {"side"} |-> "center"])]),
      PyDict([a \in {"parent", "proxies"} |->
                IF a = "parent" THEN PyStr("not-a-uuid")
                ELSE PyDictOf(<<"u28">>, [u \in {"u28"} |-> PyDict(EmptyDict)])]) }

\* {"class name": description} dictionaries a caller may hand to
\* read_modules_from_dict
ModulesDicts ==
    { PyNone }
    \cup { PyDictOf(<<c>>, [x \in {c} |-> d]) :
             c \in {"Generic", "Tail", "ModuleTail"}, d \in ModuleDicts }
    \cup { PyDictOf(<<"Tail", "ModuleGeneric">>, [x \in {"Tail", "ModuleGeneric"} |-> d]) :
             d \in ModuleDicts \ {PyNone} }

\* project descriptions a caller may hand to RigProject.read_data_from_dict
ProjectDicts ==
    { PyNone, PyStr("rig"), PyList(2), PyDict(EmptyDict) }
    \cup { PyDict([a \in {"name", "modules"} |-> IF a = "name" THEN PyStr("rig") ELSE d]) :
             d \in { md \in ModulesDicts : md.t = "dict" /\ Len(md.keys) = 1 } }

\* a call that ends in the state result, raising result.exc if that is not "none"
CallData(name, k, j, arg, result) ==
    /\ opCalls < MaxDataCalls
    /\ projectBefore' = project
    /\ uuidCountBefore' = uuidCount
    /\ project' = result.project
    /\ uuidCount' = result.uuidCount
    /\ opExc' = result.exc
    /\ lastOp' = [name |-> name, k |-> k, j |-> j, arg |-> arg]
    /\ opCalls' = opCalls + 1

\* the project after a call on module k ended with the module as mres.module
OnModule(k, mres) ==
    [ project |-> [project EXCEPT !.modules[k] = mres.module],
      exc |-> mres.exc,
      uuidCount |-> mres.uuidCount ]

Returned(m) == [module |-> m, exc |-> "none", uuidCount |-> uuidCount]

OnProxy(k, j, p) == OnModule(k, Returned([project.modules[k] EXCEPT !.proxies[j] = p]))

AddToModules ==
    /\ Len(project.modules) < MaxModules
    /\ \E x \in {PyNone, ModuleObj("ModuleGeneric"), ModuleObj("ModuleTail")} :
         CallData("add_to_modules", 0, 0, x,
                  [project |-> add_to_modules(project, x), exc |-> "none", uuidCount |-> uuidCount])

ReadModulesFromDict ==
    \E d \in ModulesDicts, noneRaises \in BOOLEAN :
        CallData("read_modules_from_dict", 0, 0, d,
                 read_modules_from_dict(project, uuidCount, d, noneRaises))

ProjectReadDataFromDict ==
    \E d \in ProjectDicts, noneRaises \in BOOLEAN :
        CallData("RigProject.read_data_from_dict", 0, 0, d,
                 RigProject_read_data_from_dict(project, uuidCount, d, noneRaises))

\* module.add_to_proxies(x), or module.add_to_proxies(Proxy())
AddToProxies ==
    \E k \in DOMAIN project.modules :
        \/ \E x \in ProxyInputs :
             CallData("add_to_proxies", k, 0, x,
                      OnModule(k, Returned(ModuleGeneric_add_to_proxies(project.modules[k], x))))
        \/ LET x == ProxyObj(generate_uuid(uuidCount + 1))
           IN CallData("add_to_proxies", k, 0, x,
                       OnModule(k, [module |-> ModuleGeneric_add_to_proxies(project.modules[k], x),
                                    exc |-> "none", uuidCount |-> uuidCount + 1]))

\* module.set_proxies(x) with None, a string, or a list of Proxy objects
SetProxies ==
    \E k \in DOMAIN project.modules :
        \E x \in ProxyInputs \ {PyList(2)} :
            CallData("set_proxies", k, 0, x,
                     OnModule(k, Returned(ModuleGeneric_set_proxies(project.modules[k], x))))

ReadProxiesFromDict ==
    \E k \in DOMAIN project.modules :
        \E d \in ProxiesDicts, noneRaises \in BOOLEAN :
            CallData("read_proxies_from_dict", k, 0, d,
                     OnModule(k, ModuleGeneric_read_proxies_from_dict(
                                     project.modules[k], uuidCount, d, noneRaises)))

ModuleReadDataFromDict ==
    \E k \in DOMAIN project.modules :
        \E d \in ModuleDicts \cup {PyStr("arm"), PyList(2)}, noneRaises \in BOOLEAN :
            CallData("ModuleGeneric.read_data_from_dict", k, 0, d,
                     OnModule(k, ModuleGeneric_read_data_from_dict(
                                     project.modules[k], uuidCount, d, noneRaises)))

ModuleSetParentUuid ==
    \E k \in DOMAIN project.modules :
        \E x \in UuidInputs :
            CallData("ModuleGeneric.set_parent_uuid", k, 0, x,
                     OnModule(k, Returned(ModuleGeneric_set_parent_uuid(project.modules[k], x))))

ModuleClearParentUuid ==
    \E k \in DOMAIN project.modules :
        CallData("ModuleGeneric.clear_parent_uuid", k, 0, PyNone,
                 OnModule(k, Returned(ModuleGeneric_clear_parent_uuid(project.modules[k]))))

ProxySetUuid ==
    \E k \in DOMAIN project.modules :
        \E j \in DOMAIN project.modules[k].proxies, x \in UuidInputs :
            CallData("set_uuid", k, j, x,
                     OnProxy(k, j, set_uuid(project.modules[k].proxies[j], x)))

ProxySetParentUuid ==
    \E k \in DOMAIN project.modules :
        \E j \in DOMAIN project.modules[k].proxies, x \in UuidInputs :
            CallData("set_parent_uuid", k, j, x,
                     OnProxy(k, j, set_parent_uuid(project.modules[k].proxies[j], x)))

\* proxy.set_parent_uuid_from_proxy(x) with a proxy of the project, a new
\* Proxy(uuid="u21"), or None
ProxySetParentUuidFromProxy ==
    \E k \in DOMAIN project.modules :
        \E j \in DOMAIN project.modules[k].proxies :
            \E x \in {PyNone, ProxyObj("u21")}
                     \cup {ProxyObj(project.modules[k].proxies[i].uuid.v) :
                             i \in DOMAIN project.modules[k].proxies} :
                CallData("set_parent_uuid_from_proxy", k, j, x,
                         OnProxy(k, j, set_parent_uuid_from_proxy(project.modules[k].proxies[j], x)))

ProxyClearParentUuid ==
    \E k \in DOMAIN project.modules :
        \E j \in DOMAIN project.modules[k].proxies :
            CallData("clear_parent_uuid", k, j, PyNone,
                     OnProxy(k, j, clear_parent_uuid(project.modules[k].proxies[j])))

\* RigProject().read_data_from_dict(project.get_project_as_dict()): the new
\* project takes the place of the old one
ProjectRoundTrip ==
    \E noneRaises \in BOOLEAN :
        CallData("project_round_trip", 0, 0, PyNone,
                 RigProject_read_data_from_dict(NewProject, uuidCount,
                                                get_project_as_dict(project), noneRaises))

DataNext ==
    \/ AddToModules
    \/ ProjectRoundTrip
    \/ ReadModulesFromDict
    \/ ProjectReadDataFromDict
    \/ AddToProxies
    \/ SetProxies
    \/ ReadProxiesFromDict
    \/ ModuleReadDataFromDict
    \/ ModuleSetParentUuid
    \/ ModuleClearParentUuid
    \/ ProxySetUuid
    \/ ProxySetParentUuid
    \/ ProxySetParentUuidFromProxy
    \/ ProxyClearParentUuid

\* ------------------------------------------------------ RiggerController
MaxCtlCalls == 2

\* ctlScene: what the controller's validation looks at in the scene;
\* ctlProject: the proxy position held by the project of the model;
\* ctlPc: "idle" or the modal dialog the handler waits in; ctlOp: the handler;
\* ctlLog: what the running or last handler did, in order; ctlBefore: scene
\* and project when it started; ctlResult: how it ended.
VARIABLES ctlScene, ctlProject, ctlPc, ctlOp, ctlLog, ctlBefore, ctlResult, ctlCalls

ctlVars == <<ctlScene, ctlProject, ctlPc, ctlOp, ctlLog, ctlBefore, ctlResult, ctlCalls>>

\* positions a guide can have in the scene and in the project
GuidePositions == {"p0", "p1"}

\* the scenes the tool is opened on: with or without a proxy built earlier
\* (its guide where the user left it), with or without a rig built earlier
CtlScenes ==
    UNION { { [proxyRoots |-> n, rigRoots |-> r, guide |-> g] :
                g \in IF n = 0 THEN {"None"} ELSE GuidePositions } :
            n \in 0..1, r \in 0..1 } 

\* the return values of QMessageBox.exec_() for the three buttons, and one
\* for the dialog closed otherwise
DialogResults == 0..3

ProxyButtons == <<"Ignore Changes and Rebuild", "Read Changes and Rebuild", "Cancel", "Cancel">>
RigButtons == <<"Delete Current and Rebuild", "Unpack Geometries and Rebuild", "Cancel", "Cancel">>

\* the handler's progress: st = [scene, project, log, status]
CtlEvent(st, e) ==
    [st EXCEPT !.log = Append(@, [e |-> e, proxyRoots |-> st.scene.proxyRoots])]

\* tools_rig_utils.find_root_group_proxy / find_root_group_rig
find_root_group_proxy(sc) == sc.proxyRoots > 0
find_root_group_rig(sc) == sc.rigRoots > 0

\* cmds.delete(proxy_grp): the root group goes with the guides under it
DeleteProxyGrp(st) ==
    CtlEvent([st EXCEPT !.scene.proxyRoots = @ - 1, !.scene.guide = "None"], "delete_proxy")

\* cmds.delete(rig_grp)
DeleteRigGrp(st) ==
    CtlEvent([st EXCEPT !.scene.rigRoots = @ - 1], "delete_rig")

\* RigProject.read_data_from_scene: every proxy found in the scene gives its
\* position to the project; the event is logged when the method returns
RigProject_read_data_from_scene(st) ==
    CtlEvent([st EXCEPT !.project = IF st.scene.guide # "None" THEN st.scene.guide ELSE @],
             "read_data_from_scene")

\* preprocessing_validation with the buttons' effects in the other order:
\* the group is deleted before the scene is read
ExistingProxy_DeleteFirst(st, result, readRaises) ==
    IF result = 0 THEN DeleteProxyGrp(CtlEvent(st, ProxyButtons[1]))
    ELSE IF result = 1
    THEN IF readRaises
         THEN [DeleteProxyGrp(CtlEvent(st, ProxyButtons[2])) EXCEPT !.status = "Exception"]
         ELSE RigProject_read_data_from_scene(DeleteProxyGrp(CtlEvent(st, ProxyButtons[2])))
    ELSE [CtlEvent(st, "Cancel") EXCEPT !.status = "cancelled"]

\* preprocessing_validation, "Existing Proxy", after exec_() has returned
\* result. A lookup of read_data_from_scene that raises ends the handler.
ExistingProxy(st, result, readRaises) ==
    IF result = 0 THEN DeleteProxyGrp(CtlEvent(st, ProxyButtons[1]))
    ELSE IF result = 1
    THEN IF readRaises
         THEN [CtlEvent(st, ProxyButtons[2]) EXCEPT !.status = "Exception"]
         ELSE DeleteProxyGrp(RigProject_read_data_from_scene(CtlEvent(st, ProxyButtons[2])))
    ELSE [CtlEvent(st, "Cancel") EXCEPT !.status = "cancelled"]

\* preprocessing_validation, "Existing Rig", after exec_() has returned result
ExistingRig(st, result) ==
    IF result \in {0, 1} THEN DeleteRigGrp(CtlEvent(st, RigButtons[result + 1]))
    ELSE [CtlEvent(st, "Cancel") EXCEPT !.status = "cancelled"]

\* RiggerController.build_proxy / build_rig once preprocessing_validation
\* has returned False.  project.build_proxy() makes a new proxy root with the
\* guides at the project's positions.  build_rig calls
\* project.build_proxy(optimized=True); RigProject.build_proxy(self,
\* callback=None) takes no such argument, the call raises TypeError and
\* project.build_rig() is not reached.
ControllerBuild(st, o) ==
    IF o = "build_proxy"
    THEN [CtlEvent(st, "build_proxy") EXCEPT !.scene.proxyRoots = @ + 1,
                                             !.scene.guide = st.project,
                                             !.status = "done"]
    ELSE [CtlEvent(st, "build_proxy") EXCEPT !.status = "TypeError"]

CtlCommit(st, position) ==
    /\ ctlScene' = st.scene
    /\ ctlProject' = st.project
    /\ ctlLog' = st.log
    /\ ctlResult' = st.status
    /\ ctlPc' = position

CtlState == [scene |-> ctlScene, project |-> ctlProject, log |-> ctlLog, status |-> "run"]

\* preprocessing_validation from "Existing Rig" on, then the build
FromExistingRig(st, o) ==
    IF st.status # "run" THEN CtlCommit(st, "idle")
    ELSE IF find_root_group_rig(st.scene) THEN CtlCommit(st, "rig_dialog")
    ELSE CtlCommit(ControllerBuild(st, o), "idle")

\* the user presses Build Proxy or Build Rig: the handler runs up to the
\* first dialog, or to its end when there is none
ControllerCall(o) ==
    /\ ctlPc = "idle"
    /\ ctlCalls < MaxCtlCalls
    /\ ctlCalls' = ctlCalls + 1
    /\ ctlOp' = o
    /\ ctlBefore' = [scene |-> ctlScene, project |-> ctlProject]
    /\ IF find_root_group_proxy(ctlScene)
       THEN CtlCommit([CtlState EXCEPT !.log = <<>>], "proxy_dialog")
       ELSE FromExistingRig([CtlState EXCEPT !.log = <<>>], o)

\* the user answers the "Proxy detected in the scene." dialog
ProxyDialogAnswered ==
    /\ ctlPc = "proxy_dialog"
    /\ \E result \in DialogResults, readRaises \in BOOLEAN :
           FromExistingRig(ExistingProxy(CtlState, result, readRaises), ctlOp)
    /\ UNCHANGED <<ctlOp, ctlBefore, ctlCalls>>

\* the user answers the "Existing rig detected in the scene." dialog
RigDialogAnswered ==
    /\ ctlPc = "rig_dialog"
    /\ \E result \in DialogResults :
           IF ExistingRig(CtlState, result).status # "run"
           THEN CtlCommit(ExistingRig(CtlState, result), "idle")
           ELSE CtlCommit(ControllerBuild(ExistingRig(CtlState, result), ctlOp), "idle")
    /\ UNCHANGED <<ctlOp, ctlBefore, ctlCalls>>

\* between two handlers the user moves a guide in the viewport
UserMovesGuide ==
    /\ ctlPc = "idle"
    /\ find_root_group_proxy(ctlScene)
    /\ \E g \in GuidePositions \ {ctlScene.guide} : ctlScene' = [ctlScene EXCEPT !.guide = g]
    /\ UNCHANGED <<ctlProject, ctlPc, ctlOp, ctlLog, ctlBefore, ctlResult, ctlCalls>>

CtlInit ==
    /\ ctlScene \in CtlScenes
    /\ ctlProject = "p0"
    /\ ctlPc = "idle"
    /\ ctlOp = "none"
    /\ ctlLog = <<>>
    /\ ctlBefore = [scene |-> ctlScene, project |-> ctlProject]
    /\ ctlResult = "none"
    /\ ctlCalls = 0

CtlNext ==
    \/ \E o \in {"build_proxy", "build_rig"} : ControllerCall(o)
    \/ ProxyDialogAnswered
    \/ RigDialogAnswered
    \/ UserMovesGuide

\* ------------------------------------------- calls on the ModuleSpine
\* a call other than set_spine_num on the module
CallSpine(name, h, m, raised) ==
    /\ spineCalls < MaxSpineCalls
    /\ heap' = h
    /\ spine' = m
    /\ lastSpineOp' = name
    /\ spineExc' = raised
    /\ spineCalls' = spineCalls + 1
    /\ UNCHANGED lastSpineNum

\* the parents update_module_parent and other callers may give the module
SpineParents == {PyStr("u25"), PyStr("u26"), PyStr("not-a-uuid")}

\* ModuleGeneric.set_parent_uuid, inherited by ModuleSpine
SpineSetParentUuid ==
    \E uuid \in SpineParents :
        CallSpine("set_parent_uuid", heap, ModuleGeneric_set_parent_uuid(spine, uuid), "none")

\* ModuleGeneric.clear_parent_uuid, inherited by ModuleSpine
SpineClearParentUuid ==
    CallSpine("clear_parent_uuid", heap, ModuleGeneric_clear_parent_uuid(spine), "none")

\* ModuleSpine.build_proxy, its effect on the hip
SpineBuildProxy ==
    CallSpine("build_proxy",
              [heap EXCEPT ![spine.hip] =
                  ModuleSpine_build_proxy(
                      EmptyScene,
                      [parent_uuid |-> spine.parent_uuid, proxies |-> <<@>>]).module.proxies[1]],
              spine, "none")

\* ModuleSpine.build_skeleton_post: the chest takes its meta parent as
\* parent, the inherited pass runs, the chest's parent is cleared.  The
\* inherited build_skeleton_post is not part of the sources: it returns or
\* raises, and when it raises the last statement is not reached.
build_skeleton_post(h, m, raises) ==
    IF raises
    THEN [h EXCEPT ![m.chest] = set_parent_uuid(@, PyStr(get_meta_parent_uuid(@)))]
    ELSE [h EXCEPT ![m.chest] =
            clear_parent_uuid(set_parent_uuid(@, PyStr(get_meta_parent_uuid(@))))]

SpineBuildSkeletonPost ==
    \E raises \in BOOLEAN :
        CallSpine("build_skeleton_post", build_skeleton_post(heap, spine, raises), spine,
                  IF raises THEN "Exception" ELSE "none")

SpineNext ==
    \/ \E n \in (0 - 1)..MaxSpines : SetSpineNum(n)
    \/ SpineSetParentUuid
    \/ SpineClearParentUuid
    \/ SpineBuildProxy
    \/ SpineBuildSkeletonPost


\* ---------------------------------------------------------- specifications
vars == <<heap, spine, lastSpineNum, lastSpineOp, spineExc, spineCalls,
          proxy, proxyBefore, lastSetter, lastArg, proxyExc, setterCalls,
          modules, scene, pc, idx, op, suspended, forcedRefresh, exc,
          bodyRaised, outcome, proxy_data_list, log, calls,
          project, projectBefore, uuidCount, uuidCountBefore, lastOp, opExc, opCalls,
          ctlScene, ctlProject, ctlPc, ctlOp, ctlLog, ctlBefore, ctlResult, ctlCalls>>

\* the parts of the state a specification does not exercise
SpineIdle ==
    /\ heap = <<>>
    /\ spine = [hip |-> 0, chest |-> 0, spines |-> <<>>, proxies |-> <<>>, parent_uuid |-> PyNone]
    /\ lastSpineNum = 0
    /\ lastSpineOp = "none"
    /\ spineExc = "none"
    /\ spineCalls = 0

ProxyIdle ==
    /\ proxy = NewProxy("u01")
    /\ proxyBefore = proxy
    /\ lastSetter = "none"
    /\ lastArg = PyNone
    /\ proxyExc = "none"
    /\ setterCalls = 0

BuildIdle ==
    /\ modules = <<>>
    /\ scene = EmptyScene
    /\ pc = "idle"
    /\ idx = 0
    /\ op = "none"
    /\ suspended = FALSE
    /\ forcedRefresh = FALSE
    /\ exc = "none"
    /\ bodyRaised = FALSE
    /\ outcome = "none"
    /\ proxy_data_list = <<>>
    /\ log = <<>>
    /\ calls = 0

DataIdle ==
    /\ project = NewProject
    /\ projectBefore = NewProject
    /\ uuidCount = 0
    /\ uuidCountBefore = 0
    /\ lastOp = NoOp
    /\ opExc = "none"
    /\ opCalls = 0

CtlIdle ==
    /\ ctlScene = [proxyRoots |-> 0, rigRoots |-> 0, guide |-> "None"]
    /\ ctlProject = "p0"
    /\ ctlPc = "idle"
    /\ ctlOp = "none"
    /\ ctlLog = <<>>
    /\ ctlBefore = [scene |-> ctlScene, project |-> ctlProject]
    /\ ctlResult = "none"
    /\ ctlCalls = 0

\* RigProject.build_proxy / build_rig on a project
Init == BuildInit /\ SpineIdle /\ ProxyIdle /\ DataIdle /\ CtlIdle
Next == BuildNext /\ UNCHANGED spineVars /\ UNCHANGED proxyVars /\ UNCHANGED dataVars
        /\ UNCHANGED ctlVars
Spec == Init /\ [][Next]_vars

\* ModuleSpine.set_spine_num on a constructed spine module
InitSpine == SpineInit /\ ProxyIdle /\ BuildIdle /\ DataIdle /\ CtlIdle
NextSpine == SpineNext /\ UNCHANGED proxyVars /\ UNCHANGED buildVars /\ UNCHANGED dataVars
             /\ UNCHANGED ctlVars
SpecSpine == InitSpine /\ [][NextSpine]_vars

\* A ModuleGeneric holding Proxy(uuid="u07") and the proxy is built in an
\* empty scene: RigProject.build_proxy, then RigProject.build_rig.
RigProxy ==
    /\ setterCalls < MaxSetterCalls
    /\ LET proxies == <<NewProxy("u07"), proxy>>
           guides == BuildProxies(EmptyScene, proxies, 1).scene
           joints == ModuleGeneric_build_rig(guides, proxies, 1)
       IN scene' = build_rig_post(joints, proxies, 1)
    /\ proxyBefore' = proxy
    /\ lastSetter' = "build_rig"
    /\ lastArg' = PyNone
    /\ setterCalls' = setterCalls + 1
    /\ UNCHANGED <<proxy, proxyExc>>
    /\ UNCHANGED <<modules, pc, idx, op, suspended, forcedRefresh, exc, bodyRaised,
                   outcome, proxy_data_list, log, calls>>

\* the methods of one Proxy
InitProxy == ProxyInit /\ SpineIdle /\ BuildIdle /\ DataIdle /\ CtlIdle
NextProxy ==
    /\ \/ ProxyNext /\ UNCHANGED buildVars
       \/ RigProxy
    /\ UNCHANGED spineVars
    /\ UNCHANGED dataVars
    /\ UNCHANGED ctlVars
SpecProxy == InitProxy /\ [][NextProxy]_vars

\* the data of one RigProject: its modules and their proxies
InitData == DataInit /\ SpineIdle /\ ProxyIdle /\ BuildIdle /\ CtlIdle
NextData == DataNext /\ UNCHANGED spineVars /\ UNCHANGED proxyVars /\ UNCHANGED buildVars
            /\ UNCHANGED ctlVars
SpecData == InitData /\ [][NextData]_vars

\* RiggerController.build_proxy / build_rig on scenes with and without an
\* earlier proxy and rig
InitCtl == CtlInit /\ SpineIdle /\ ProxyIdle /\ BuildIdle /\ DataIdle
NextCtl == CtlNext /\ UNCHANGED spineVars /\ UNCHANGED proxyVars /\ UNCHANGED buildVars
           /\ UNCHANGED dataVars
SpecCtl == InitCtl /\ [][NextCtl]_vars

\* ------------------------------------------------------------- properties
ActiveModules == {k \in DOMAIN modules : get_active_state(modules[k])}

Completed(phase, k, before) ==
    \E j \in 1..(before - 1) : log[j] = LogEntry(phase, modules[k], TRUE)

\* C1: in RigProject.build_rig no module's build_rig_post starts before
\* build_rig has completed for every active module.
C1_RigPostAfterEveryRigBuild ==
    \A i \in DOMAIN log :
        log[i].phase = "build_rig_post" =>
            \A k \in ActiveModules : Completed("build_rig", k, i)

\* build_rig_post has started for the module listed first while two modules are active
C1_Witness ==
    /\ op = "build_rig"
    /\ Cardinality(ActiveModules) >= 2
    /\ \E i \in DOMAIN log : log[i].phase = "build_rig_post" /\ log[i].module = modules[1].id

\* C2: in RigProject.build_proxy the second pass starts for no module before
\* build_proxy has completed for every active module, so the guides of every
\* active module exist when the second pass runs.
C2_ProxyPostAfterEveryProxyBuild ==
    /\ \A i \in DOMAIN log :
         log[i].phase = "build_proxy_post" =>
             \A k \in ActiveModules : Completed("build_proxy", k, i)
    /\ (op = "build_proxy" /\ (pc = "bp_post" \/ \E i \in DOMAIN log : log[i].phase = "build_proxy_post"))
         => \A k \in ActiveModules : \A j \in DOMAIN modules[k].proxies :
               modules[k].proxies[j].uuid.v \in scene.guides

\* the second pass has started for the module listed first while two modules are active
C2_Witness ==
    /\ op = "build_proxy"
    /\ Cardinality(ActiveModules) >= 2
    /\ \E i \in DOMAIN log : log[i].phase = "build_proxy_post" /\ log[i].module = modules[1].id

\* C3: whenever control is back in the caller of build_proxy or build_rig,
\* refresh is not suspended and the forced refresh has run, also when the
\* body raised.
C3_RefreshResumedOnExit ==
    /\ pc \in {"idle", "exit"} => ~suspended
    /\ (pc \in {"idle", "exit"} /\ calls > 0) => forcedRefresh
    /\ pc \notin {"idle", "exit"} => suspended

\* a call whose body raised has returned to the caller with refresh resumed
C3_Witness ==
    /\ pc = "idle"
    /\ bodyRaised
    /\ ~suspended
    /\ forcedRefresh

\* C4: an exception raised in the body of build_proxy or build_rig reaches
\* the caller as an exception, and only after refresh has been resumed.
C4_ExceptionReachesCaller ==
    /\ (pc = "idle" /\ bodyRaised) => (outcome = "raised" /\ exc # "none")
    /\ outcome = "returned" => ~bodyRaised
    /\ outcome = "raised" => (bodyRaised /\ ~suspended /\ forcedRefresh)

\* the AttributeError of the placing loop has reached the caller
C4_Witness ==
    /\ pc = "idle"
    /\ outcome = "raised"
    /\ exc = "AttributeError"

\* C5: an inactive module has none of its build phases invoked and no scene
\* object made for its proxies, and a call that returns has run both of its
\* phases for every active module.
C5_InactiveModulesSkipped ==
    /\ \A k \in DOMAIN modules :
         ~modules[k].active =>
            /\ \A i \in DOMAIN log : log[i].module # modules[k].id
            /\ \A j \in DOMAIN modules[k].proxies :
                  modules[k].proxies[j].uuid.v \notin (scene.guides \cup scene.joints)
    /\ (pc = "idle" /\ outcome = "returned") =>
         \A k \in DOMAIN modules :
            modules[k].active =>
               IF op = "build_proxy"
               THEN /\ Completed("build_proxy", k, Len(log) + 1)
                    /\ Completed("build_proxy_post", k, Len(log) + 1)
               ELSE /\ Completed("build_rig", k, Len(log) + 1)
                    /\ Completed("build_rig_post", k, Len(log) + 1)

\* build_proxy has returned for a project with an inactive module listed
\* before an active one, whose guides exist
C5_Witness ==
    /\ pc = "idle"
    /\ op = "build_proxy"
    /\ outcome = "returned"
    /\ Len(modules) >= 2
    /\ ~modules[1].active
    /\ modules[2].active
    /\ modules[2].proxies[1].uuid.v \in scene.guides

\* C6: with two active modules A (no parent) and B whose module parent_uuid
\* is the UUID of A's root proxy, after build_proxy the offset of B's root
\* guide is parented under A's root guide, in either list order.
C6_ModuleParentedUnderParentGuide ==
    (/\ pc = "idle"
     /\ op = "build_proxy"
     /\ outcome = "returned"
     /\ Len(modules) = 2
     /\ \A k \in DOMAIN modules : modules[k].active)
    => \A a, b \in DOMAIN modules :
          (/\ modules[a].id = 1
           /\ modules[a].parent_uuid = PyNone
           /\ modules[b].parent_uuid = modules[a].proxies[1].uuid)
          => scene.offsetParent[modules[b].proxies[1].uuid.v] = modules[a].proxies[1].uuid.v

\* C7: the module holds exactly the requested number of in-between proxies,
\* the first parented to the hip and each later one to the one before it.
C7_SpinesChained ==
    /\ lastSpineNum >= 0 => Len(spine.spines) = lastSpineNum
    /\ \A i \in DOMAIN spine.spines :
         heap[spine.spines[i]].parent_uuid =
            IF i = 1 THEN heap[spine.hip].uuid ELSE heap[spine.spines[i - 1]].uuid

\* the spine list was emptied and grown again past its constructed length
C7_Witness ==
    /\ spineCalls >= 2
    /\ Len(heap) > 5
    /\ Len(spine.spines) = MaxSpines
    /\ spine.spines[1] > 5

\* C8: chest's meta parent is the UUID of the last in-between proxy, or the
\* hip's UUID when there is none.
C8_ChestMetaParent ==
    get_meta_parent_uuid(heap[spine.chest]) =
        IF spine.spines # <<>>
        THEN heap[spine.spines[Len(spine.spines)]].uuid.v
        ELSE heap[spine.hip].uuid.v

\* set_spine_num(0) has emptied the list and the chest points at the hip
C8_Witness ==
    /\ spineCalls >= 1
    /\ lastSpineNum = 0
    /\ spine.spines = <<>>
    /\ get_meta_parent_uuid(heap[spine.chest]) = heap[spine.hip].uuid.v

C9_ProxiesListed ==
    /\ heap[spine.hip].uuid = SpineConstructed.heap[1].uuid
    /\ heap[spine.chest].uuid = SpineConstructed.heap[2].uuid
    /\ spine.proxies = <<spine.hip>> \o spine.spines \o <<spine.chest>>

C9_SurvivorsKept ==
    /\ spine'.hip = spine.hip
    /\ spine'.chest = spine.chest
    /\ \A i \in DOMAIN spine.spines :
         i \in DOMAIN spine'.spines =>
            /\ spine'.spines[i] = spine.spines[i]
            /\ heap'[spine'.spines[i]].uuid = heap[spine.spines[i]].uuid

\* C9: set_spine_num keeps the UUIDs of hip and chest and of the in-between
\* proxies that survive, and the proxies list is always hip, the in-between
\* proxies in order, chest.
C9_HipChestAndSurvivorsPreserved ==
    []C9_ProxiesListed /\ [][C9_SurvivorsKept]_vars

\* the list was shortened and the survivor is still the constructed first spine
C9_Witness ==
    /\ spineCalls >= 1
    /\ Len(spine.spines) = 1
    /\ spine.spines[1] = 3
    /\ spine.proxies = <<1, 3, 2>>

\* the input types each setter accepts
WrongType(setter, x) ==
    CASE setter \in {"set_name", "set_uuid", "set_parent_uuid"} -> x.t # "str"
      [] setter \in {"set_transform", "set_offset_transform"} -> x.t # "Transform"
      [] setter = "set_curve" -> x.t # "Curve"
      [] setter = "set_locator_scale" -> ~IsNumber(x)
      [] setter \in {"set_attr_dict", "set_metadata_dict"} -> x.t # "dict"
      [] setter = "set_parent_uuid_from_proxy" -> x.t # "Proxy"
      [] OTHER -> FALSE

\* C10: a Proxy setter called with an input of the wrong type leaves every
\* field of the proxy as it was before the call.
C10_WrongTypeLeavesProxyUnchanged ==
    (lastSetter # "none" /\ WrongType(lastSetter, lastArg)) => proxy = proxyBefore

\* C11: set_transform / set_offset_transform given a value that is not a
\* Transform leave the field as it was, and is_valid gives the same result
\* whatever the two transform fields hold.
C11_InvalidTransformRejected ==
    /\ (lastSetter = "set_transform" /\ lastArg.t # "Transform")
          => proxy.transform = proxyBefore.transform
    /\ (lastSetter = "set_offset_transform" /\ lastArg.t # "Transform")
          => proxy.offset_transform = proxyBefore.offset_transform
    /\ lastSetter \in {"set_transform", "set_offset_transform"}
          => is_valid(proxy) = is_valid(proxyBefore)
    /\ \A tr, off \in {PyNone, DefaultTransform, TransformObj("T1")} :
          is_valid([proxy EXCEPT !.transform = tr, !.offset_transform = off]) = is_valid(proxy)

\* set_transform("arm") was called on a proxy holding a transform, which it kept
C11_Witness ==
    /\ lastSetter = "set_transform"
    /\ lastArg = PyStr("arm")
    /\ proxyBefore.transform = TransformObj("T2")
    /\ proxy.transform = TransformObj("T2")

RoundTripFields ==
    {"name", "parent_uuid", "locator_scale", "transform", "offset_transform",
     "attr_dict", "metadata"}

\* C14: a new Proxy that reads get_proxy_as_dict() of a proxy p has p's name,
\* parent_uuid, locator_scale, transform, offset_transform, attr_dict and
\* metadata, and not p's UUID unless include_uuid was True.
C14_RoundTripReproducesProxy ==
    lastSetter = "round_trip" =>
        /\ proxyExc = "none"
        /\ \A f \in RoundTripFields : proxy[f] = proxyBefore[f]
        /\ lastArg = PyBool(FALSE) => proxy.uuid # proxyBefore.uuid

\* the proxy field each recognized key of a description is read into
FieldOfKey ==
    [k \in {"name", "parent", "locatorScale", "transform", "offsetTransform",
            "attributes", "metadata", "uuid"} |->
        CASE k = "name" -> "name"
          [] k = "parent" -> "parent_uuid"
          [] k = "locatorScale" -> "locator_scale"
          [] k = "transform" -> "transform"
          [] k = "offsetTransform" -> "offset_transform"
          [] k = "attributes" -> "attr_dict"
          [] k = "metadata" -> "metadata"
          [] OTHER -> "uuid"]

WithoutUnrecognized(d) ==
    PyDict([k \in (DOMAIN d.v) \cap (DOMAIN FieldOfKey) |-> d.v[k]])

\* C15: read_data_from_dict leaves the field of every recognized key that
\* the dictionary lacks as it was, and the keys it does not recognize
\* change nothing.
C15_ReadDataMerges ==
    (lastSetter = "read_data_from_dict" /\ lastArg.t = "dict") =>
        /\ \A k \in DOMAIN FieldOfKey :
              k \notin DOMAIN lastArg.v => proxy[FieldOfKey[k]] = proxyBefore[FieldOfKey[k]]
        /\ \A noneRaises \in BOOLEAN :
              read_data_from_dict(proxyBefore, lastArg, noneRaises)
                = read_data_from_dict(proxyBefore, WithoutUnrecognized(lastArg), noneRaises)

\* a description with a parent and an unrecognized key was read by a proxy
\* whose other fields were set: the parent changed, the name did not
C15_Witness ==
    /\ lastSetter = "read_data_from_dict"
    /\ lastArg.t = "dict"
    /\ DOMAIN lastArg.v = {"parent", "color"}
    /\ proxyBefore.name = PyStr("leg")
    /\ proxyBefore.parent_uuid = PyStr("u03")
    /\ proxy.name = PyStr("leg")
    /\ proxy.locator_scale = PyInt(3)
    /\ proxy.parent_uuid = PyStr("u05")

ParentUuidSetters == {"set_parent_uuid", "set_parent_uuid_from_proxy", "clear_parent_uuid"}

\* C20: add_meta_parent leaves parent_uuid alone, the parent_uuid setters
\* leave the meta-parent entry alone, and build_rig_post puts a joint under
\* the joint of its proxy's parent_uuid only: without one the joint stays
\* unparented, whatever the meta parent.
C20_MetaParentIsNotParent ==
    /\ lastSetter = "add_meta_parent" => proxy.parent_uuid = proxyBefore.parent_uuid
    /\ lastSetter \in ParentUuidSetters =>
          /\ proxy.metadata = proxyBefore.metadata
          /\ get_meta_parent_uuid(proxy) = get_meta_parent_uuid(proxyBefore)
    /\ (lastSetter = "build_rig" /\ proxy.uuid.v \in scene.joints) =>
          scene.jointParent[proxy.uuid.v] =
              IF proxy.parent_uuid.t = "str" /\ proxy.parent_uuid.v \in scene.joints
              THEN proxy.parent_uuid.v
              ELSE "world"

\* a proxy whose meta parent is the other proxy of the module, and which has
\* no parent_uuid, was rigged: both joints exist and its joint is unparented
C20_Witness ==
    /\ lastSetter = "build_rig"
    /\ get_meta_parent_uuid(proxy) = "u07"
    /\ proxy.parent_uuid = PyNone
    /\ {"u07", proxy.uuid.v} \subseteq scene.joints
    /\ scene.jointParent[proxy.uuid.v] = "world"

\* the scene objects that carry a UUID or hang on one that does
SceneUuids ==
    scene.guides \cup DOMAIN scene.offsetParent \cup DOMAIN scene.attrs
        \cup DOMAIN scene.transforms \cup scene.joints
        \cup UNION {{l[1], l[2]} : l \in scene.lines}

BuiltInThisCall(k) ==
    /\ op = "build_proxy"
    /\ \E i \in DOMAIN log : log[i] = LogEntry("build_proxy", modules[k], TRUE)

\* C18: Proxy.build of a proxy that is not valid returns None and makes or
\* changes no scene object.
C18_InvalidProxyBuildsNothing ==
    \A k \in DOMAIN modules : \A j \in DOMAIN modules[k].proxies :
        LET p == modules[k].proxies[j]
        IN ~is_valid(p) =>
             /\ p.uuid.v \notin SceneUuids
             /\ \A i \in DOMAIN proxy_data_list : proxy_data_list[i] # p.uuid.v
             /\ BuiltInThisCall(k) => \E i \in DOMAIN proxy_data_list : proxy_data_list[i] = "None"

\* build_proxy of a module with a valid root and a tip without a name has
\* run: the root's guide exists and the tip's build returned None
C18_Witness ==
    /\ \E k \in DOMAIN modules :
         /\ BuiltInThisCall(k)
         /\ is_valid(modules[k].proxies[1])
         /\ ~is_valid(modules[k].proxies[2])
         /\ modules[k].proxies[1].uuid.v \in scene.guides
    /\ \E i \in DOMAIN proxy_data_list : proxy_data_list[i] = "None"

\* C19: a proxy whose build returns no ProxyData does not stop build_proxy:
\* unless the backend fails, the call returns, and every valid proxy of
\* every active module has its guide placed under the shared root or under
\* its parent, and its module post-processed.
C19_MalformedProxyDoesNotBlockSiblings ==
    (/\ pc = "idle"
     /\ op = "build_proxy"
     /\ exc # "RuntimeError"
     /\ \E k \in ActiveModules : \E j \in DOMAIN modules[k].proxies :
           ~is_valid(modules[k].proxies[j]))
    => /\ outcome = "returned"
       /\ \A k \in ActiveModules :
            /\ Completed("build_proxy_post", k, Len(log) + 1)
            /\ \A j \in DOMAIN modules[k].proxies :
                  is_valid(modules[k].proxies[j]) =>
                     /\ modules[k].proxies[j].uuid.v \in scene.guides
                     /\ scene.offsetParent[modules[k].proxies[j].uuid.v] # "world"

\* ---------------------------------------------------------------- C12
IsValidUuidValue(x) ==
    x.t = "str" /\ (is_uuid_valid(x.v) \/ is_short_uuid_valid(x.v))

ParentUuidOk(x) == x = PyNone \/ IsValidUuidValue(x)

ProjectProxyUuids ==
    UNION { { project.modules[k].proxies[j].uuid : j \in DOMAIN project.modules[k].proxies } :
              k \in DOMAIN project.modules }

\* C12: after any sequence of Proxy construction, set_parent_uuid,
\* set_parent_uuid_from_proxy, clear_parent_uuid and read_data_from_dict
\* calls on the proxies, and of set_parent_uuid / clear_parent_uuid on the
\* modules, every parent_uuid is None or a string that is_uuid_valid or
\* is_short_uuid_valid accepts; and a valid UUID handed to set_parent_uuid
\* is stored whether or not a proxy of the project has it.
C12_ParentUuidIsNoneOrValid ==
    /\ \A k \in DOMAIN project.modules :
          /\ ParentUuidOk(project.modules[k].parent_uuid)
          /\ \A j \in DOMAIN project.modules[k].proxies :
                ParentUuidOk(project.modules[k].proxies[j].parent_uuid)
    /\ (lastOp.name = "set_parent_uuid" /\ IsValidUuidValue(lastOp.arg))
          => project.modules[lastOp.k].proxies[lastOp.j].parent_uuid = lastOp.arg
    /\ (lastOp.name = "ModuleGeneric.set_parent_uuid" /\ IsValidUuidValue(lastOp.arg))
          => project.modules[lastOp.k].parent_uuid = lastOp.arg

\* set_parent_uuid stored a valid UUID that no proxy of the project has,
\* on a proxy whose module was read from a dictionary before
C12_Witness ==
    /\ lastOp.name = "set_parent_uuid"
    /\ IsValidUuidValue(lastOp.arg)
    /\ lastOp.arg \notin ProjectProxyUuids
    /\ project.modules[lastOp.k].proxies[lastOp.j].parent_uuid = lastOp.arg
    /\ projectBefore.modules[lastOp.k].proxies[lastOp.j].parent_uuid # lastOp.arg
    /\ \E j \in DOMAIN project.modules[lastOp.k].proxies :
          project.modules[lastOp.k].proxies[j].name = PyStr("toe")

\* ---------------------------------------------------------------- C13
ProxyPositions ==
    UNION { { <<k, j>> : j \in DOMAIN project.modules[k].proxies } :
              k \in DOMAIN project.modules }

\* C13: in every reachable state of a RigProject no two distinct proxies
\* of its modules have the same UUID, after any sequence of Proxy
\* construction, set_uuid, add_to_proxies / set_proxies,
\* read_proxies_from_dict and add_to_modules / read_data_from_dict.
C13_ProxyUuidsUnique ==
    \A a \in ProxyPositions, b \in ProxyPositions :
        a # b => project.modules[a[1]].proxies[a[2]].uuid
                   # project.modules[b[1]].proxies[b[2]].uuid

\* ---------------------------------------------------------------- C16
\* the class names of the keys of a modules dictionary
UnknownClassKeys(d) ==
    { i \in DOMAIN d.keys : WithModulePrefix(d.keys[i]) \notin AvailableModules }

\* the same dictionary with every unknown class name replaced by "Generic"
AsKnownClass(d) ==
    LET renamed(c) == IF WithModulePrefix(c) \in AvailableModules THEN c ELSE "Generic"
    IN PyDictOf([i \in DOMAIN d.keys |-> renamed(d.keys[i])],
                [c \in {renamed(d.keys[i]) : i \in DOMAIN d.keys} |->
                   d.v[CHOOSE x \in DOMAIN d.v : renamed(x) = c]])

\* what a module description says about a field, None when it says nothing
Described(desc, key) == PyGet(desc.v, key)

\* module m carries what description desc says
ModuleMatchesDescription(m, desc) ==
    /\ m.name = (IF Described(desc, "name").t = "str" /\ Truthy(Described(desc, "name"))
                 THEN Described(desc, "name") ELSE PyNone)
    /\ m.prefix = (IF Described(desc, "prefix").t = "str" /\ Truthy(Described(desc, "prefix"))
                   THEN Described(desc, "prefix") ELSE PyNone)
    /\ m.parent_uuid = (IF IsValidUuidValue(Described(desc, "parent"))
                        THEN Described(desc, "parent") ELSE PyNone)
    /\ m.active = (IF Described(desc, "active").t = "bool"
                   THEN Described(desc, "active").v ELSE TRUE)
    /\ LET proxies == Described(desc, "proxies")
       IN IF proxies.t = "dict" /\ Truthy(proxies)
          THEN /\ Len(m.proxies) = Len(proxies.keys)
               /\ \A j \in DOMAIN m.proxies :
                     LET pd == proxies.v[proxies.keys[j]]
                     IN /\ m.proxies[j].uuid = PyStr(proxies.keys[j])
                        /\ m.proxies[j].name =
                              (IF PyGet(pd.v, "name").t = "str" /\ Truthy(PyGet(pd.v, "name"))
                               THEN PyGet(pd.v, "name") ELSE PyStr("proxy"))
                        /\ m.proxies[j].parent_uuid =
                              (IF IsValidUuidValue(PyGet(pd.v, "parent"))
                               THEN PyGet(pd.v, "parent") ELSE PyNone)
          ELSE m.proxies = <<>>

\* C16: read_modules_from_dict on a mapping that has a class name RigModules
\* does not know (every description being a dictionary) does not fail; it
\* appends a ModuleGeneric for that entry whose name, prefix, parent,
\* active flag and proxies (one per UUID key, with its fields) are those
\* of the description, exactly as when the entry has a known class name.
C16_UnknownClassReadAsGeneric ==
    ( /\ lastOp.name = "read_modules_from_dict"
      /\ lastOp.arg.t = "dict"
      /\ UnknownClassKeys(lastOp.arg) # {}
      /\ \A c \in DOMAIN lastOp.arg.v : lastOp.arg.v[c].t = "dict" )
    => /\ opExc = "none"
       /\ Len(project.modules) = Len(lastOp.arg.keys)
       /\ \A i \in UnknownClassKeys(lastOp.arg) :
             /\ project.modules[i].cls = "ModuleGeneric"
             /\ ModuleMatchesDescription(project.modules[i], lastOp.arg.v[lastOp.arg.keys[i]])
       /\ \A noneRaises \in BOOLEAN :
             LET known == read_modules_from_dict(projectBefore, uuidCountBefore,
                                                 AsKnownClass(lastOp.arg), noneRaises)
             IN /\ known.exc = "none"
                /\ known.project = project
                /\ known.uuidCount = uuidCount

\* the entry "Tail" with a name, a prefix, a parent, an active flag and two
\* proxies was read into a ModuleGeneric
C16_Witness ==
    /\ lastOp.name = "read_modules_from_dict"
    /\ lastOp.arg.t = "dict"
    /\ lastOp.arg.keys = <<"Tail">>
    /\ opExc = "none"
    /\ Len(project.modules) = 1
    /\ project.modules[1].cls = "ModuleGeneric"
    /\ project.modules[1].name = PyStr("tail")
    /\ project.modules[1].parent_uuid = PyStr("u27")
    /\ ~project.modules[1].active
    /\ Len(project.modules[1].proxies) = 2
    /\ project.modules[1].proxies[2].parent_uuid = PyStr("u25")

\* ---------------------------------------------------------------- C17
\* C17: ModuleGeneric.is_valid() is True exactly when the proxies list is
\* non-empty (False for ModuleGeneric(), True after add_to_proxies with one
\* Proxy), and a valid module stays valid through every call of
\* set_proxies, add_to_proxies and read_proxies_from_dict, whatever the
\* input.
C17_ValidModuleStaysValid ==
    /\ ~ModuleGeneric_is_valid(NewModule("ModuleGeneric"))
    /\ ModuleGeneric_is_valid(
          ModuleGeneric_add_to_proxies(NewModule("ModuleGeneric"), ProxyObj("u21")))
    /\ \A k \in DOMAIN project.modules :
          ModuleGeneric_is_valid(project.modules[k]) <=> Len(project.modules[k].proxies) > 0
    /\ ( /\ lastOp.name \in {"set_proxies", "add_to_proxies", "read_proxies_from_dict"}
         /\ ModuleGeneric_is_valid(projectBefore.modules[lastOp.k]) )
       => ModuleGeneric_is_valid(project.modules[lastOp.k])

\* ---------------------------------------------------------------- C21
\* the active ModuleGeneric modules for which a phase of this build_rig call
\* has completed
RigPhaseDone(phase) ==
    { k \in ActiveModules :
        /\ op = "build_rig"
        /\ modules[k].cls = "ModuleGeneric"
        /\ Completed(phase, k, Len(log) + 1) }

\* C21: in ModuleGeneric.build_rig and build_rig_post a proxy whose guide
\* (phase 3) or joint (phase 4) does not resolve by UUID, or whose
\* parent_uuid is None or resolves to no joint, is skipped without raising,
\* and every other proxy of the module is still processed in that phase.
C21_UnresolvedProxySkipped ==
    /\ \A k \in RigPhaseDone("build_rig") : \A j \in DOMAIN modules[k].proxies :
          LET p == modules[k].proxies[j]
          IN (find_proxy_from_uuid(scene, p.uuid) # "None")
                <=> (find_joint_node_from_uuid(scene, p.uuid) # "None")
    /\ \A k \in RigPhaseDone("build_rig_post") : \A j \in DOMAIN modules[k].proxies :
          LET p == modules[k].proxies[j]
              joint == find_joint_node_from_uuid(scene, p.uuid)
              parent_joint == find_joint_node_from_uuid(scene, p.parent_uuid)
          IN joint # "None" =>
               scene.jointParent[joint] =
                   (IF parent_joint = "None" THEN "world" ELSE parent_joint)
    /\ (op = "build_rig" /\ exc # "none") => exc = "RuntimeError"

\* build_rig and build_rig_post have completed for a module whose root has
\* no parent and whose tip has no guide: the tip has no joint, the root's
\* joint is in the world
C21_Witness ==
    /\ outcome = "returned"
    /\ \E k \in RigPhaseDone("build_rig_post") :
         /\ modules[k].proxies[1].parent_uuid = PyNone
         /\ modules[k].proxies[1].uuid.v \in scene.joints
         /\ scene.jointParent[modules[k].proxies[1].uuid.v] = "world"
         /\ modules[k].proxies[2].uuid.v \notin scene.guides
         /\ modules[k].proxies[2].uuid.v \notin scene.joints

\* ---------------------------------------------------------------- C22
\* build_rig of the ModuleGeneric at idx completes in this step
GenericRigBuilt ==
    /\ pc = "br_build"
    /\ idx \in DOMAIN modules
    /\ modules[idx].cls = "ModuleGeneric"
    /\ log' = Append(log, LogEntry("build_rig", modules[idx], TRUE))

ResolvedGuides(sc, m) ==
    { m.proxies[j].uuid.v : j \in { i \in DOMAIN m.proxies :
                                       find_proxy_from_uuid(sc, m.proxies[i].uuid) # "None" } }

\* C22: ModuleGeneric.build_rig creates one joint for each proxy whose
\* guide resolves and for no other, stamps it with the proxy's UUID in the
\* joint namespace (the guide keeps resolving by the same UUID in the proxy
\* namespace), and parents nothing: every joint it creates has no parent
\* when it returns.
C22_BuildRigMakesUnparentedJoints ==
    [][ GenericRigBuilt =>
          /\ scene'.joints = scene.joints \cup ResolvedGuides(scene, modules[idx])
          /\ \A u \in ResolvedGuides(scene, modules[idx]) :
                /\ find_joint_node_from_uuid(scene', PyStr(u)) = u
                /\ find_proxy_from_uuid(scene', PyStr(u)) = u
                /\ scene'.jointParent[u] = "world"
          /\ \A u \in scene.joints \ ResolvedGuides(scene, modules[idx]) :
                scene'.jointParent[u] = scene.jointParent[u]
          /\ scene'.guides = scene.guides
          /\ scene'.offsetParent = scene.offsetParent ]_vars

\* build_rig has run for a module whose tip has the root as its parent:
\* both have a guide and a joint, and the tip's joint is in the world
C22_Witness ==
    /\ op = "build_rig"
    /\ pc = "br_build"
    /\ \E k \in RigPhaseDone("build_rig") :
         LET root == modules[k].proxies[1].uuid
             tip == modules[k].proxies[2]
         IN /\ tip.parent_uuid = root
            /\ {root.v, tip.uuid.v} \subseteq scene.guides
            /\ {root.v, tip.uuid.v} \subseteq scene.joints
            /\ scene.jointParent[tip.uuid.v] = "world"

\* ---------------------------------------------------------------- C23
ActiveProxies ==
    UNION { { modules[k].proxies[j] : j \in DOMAIN modules[k].proxies } : k \in ActiveModules }

C24_ProjectSurvivesSerialization ==
    lastOp.name = "project_round_trip" =>
        /\ opExc = "none"
        /\ Len(project.modules) = Len(projectBefore.modules)
        /\ \A i \in DOMAIN project.modules :
              project.modules[i].cls = projectBefore.modules[i].cls

\* ---------------------------------------------------------------- C25
\* C25: read_data_from_dict of ModuleGeneric and RigProject (and of Proxy,
\* which they call) with an input that is not a dictionary (None, a list,
\* a string) does not raise and leaves the object unchanged; RigProject
\* keeps its modules and metadata.
C25_NonDictInputRejected ==
    ( /\ lastOp.name \in {"ModuleGeneric.read_data_from_dict",
                          "RigProject.read_data_from_dict"}
      /\ lastOp.arg.t # "dict" )
    => /\ opExc = "none"
       /\ project = projectBefore

\* ------------------------------------------------------------------ C26
\* C26: after ModuleSpine.build_proxy the hip's parent_uuid equals the
\* module's parent_uuid at that moment: after clear_parent_uuid on the module
\* the next build_proxy leaves the hip with parent_uuid None, even when an
\* earlier build_proxy ran with a parent set.
C26_HipParentFollowsModule ==
    lastSpineOp = "build_proxy" => heap[spine.hip].parent_uuid = spine.parent_uuid

\* ------------------------------------------------------------------ C27
\* C27: on every exit of ModuleSpine.build_skeleton_post, the one where the
\* inherited pass raises included, the chest's parent_uuid is None.
C27_ChestParentCleared ==
    lastSpineOp = "build_skeleton_post" => heap[spine.chest].parent_uuid = PyNone

\* ------------------------------------------------------------------ C28
\* C28: set_spine_num with a negative number removes and adds no in-between
\* proxy: the in-between list, the proxies list and the chest's meta parent
\* stay as they were.
C28_NegativeSpineNumIgnored ==
    [][(lastSpineOp' = "set_spine_num" /\ spineCalls' = spineCalls + 1 /\ lastSpineNum' < 0)
        => /\ spine'.spines = spine.spines
           /\ spine'.proxies = spine.proxies
           /\ Len(heap') = Len(heap)
           /\ get_meta_parent_uuid(heap'[spine.chest]) = get_meta_parent_uuid(heap[spine.chest])]_vars

\* ------------------------------------------------------------------ C29
CtlLogged(e) == \E i \in DOMAIN ctlLog : ctlLog[i].e = e

\* C29: when preprocessing_validation has returned True because the user
\* cancelled in the proxy dialog or in the rig dialog, nothing in the scene
\* has been deleted, the project data is what it was, and no project build
\* was invoked.
C29_CancelLeavesSceneAndProject ==
    (ctlPc = "idle" /\ ctlResult = "cancelled")
        => /\ ~CtlLogged("delete_proxy")
           /\ ~CtlLogged("delete_rig")
           /\ ctlScene.proxyRoots = ctlBefore.scene.proxyRoots
           /\ ctlScene.rigRoots = ctlBefore.scene.rigRoots
           /\ ctlProject = ctlBefore.project
           /\ ~CtlLogged("build_proxy")

\* ------------------------------------------------------------------ C30
\* C30: with "Read Changes and Rebuild" the project's read_data_from_scene
\* has returned before the existing proxy root is deleted, so the project
\* holds the guide's position of the deleted proxy; and whenever the
\* project's build_proxy is invoked from the controller, no proxy root is in
\* the scene.
C30_ReadBeforeDeleteAndNoDuplicate ==
    /\ \A i \in DOMAIN ctlLog :
           ctlLog[i].e = "build_proxy" => ctlLog[i].proxyRoots = 0
    /\ \A i \in DOMAIN ctlLog, j \in DOMAIN ctlLog :
           (i < j /\ ctlLog[i].e = "Read Changes and Rebuild" /\ ctlLog[j].e = "delete_proxy")
               => \E k \in (i + 1)..(j - 1) : ctlLog[k].e = "read_data_from_scene"
    /\ (CtlLogged("Read Changes and Rebuild") /\ CtlLogged("delete_proxy"))
           => ctlProject = ctlBefore.scene.guide
    /\ ctlScene.proxyRoots <= 1

\* a proxy whose guide the user moved was read, deleted and built again
C30_Witness ==
    /\ ctlPc = "idle"
    /\ ctlResult = "done"
    /\ ctlBefore.scene.guide # ctlBefore.project
    /\ CtlLogged("Read Changes and Rebuild")
    /\ CtlLogged("read_data_from_scene")
    /\ CtlLogged("delete_proxy")
    /\ CtlLogged("build_proxy")
    /\ ctlScene.guide = ctlBefore.scene.guide

====
